---- MODULE Spec2Model ----
(***************************************************************************)
(* Integration dashboard of kronos-chat: IntegrationService over the       *)
(* Composio connector (server/app/services/integration_service.py and      *)
(* composio_service.py).                                                   *)
(*                                                                         *)
(* A Python str is a sequence of one-character strings, so that lower(),   *)
(* title() and the ordering of strings are computed character by           *)
(* character.  None is Null; an attribute the vendor object does not have  *)
(* is Missing.                                                             *)
(***************************************************************************)
EXTENDS Integers, Sequences, FiniteSets, TLC

\* ------------------------------------------------------------------ bounds
MaxToolkits == 2

MaxConns == 2

MaxHealthConns == 3

\* toolkits offered in the specification of the popular list: one more than the
\* list may hold
MaxPopular == 6

\* calls one user makes one after the other
MaxCalls == 2

MaxGauge == 5

MaxOps == 4

MaxChunks == 3

\* ------------------------------------------------------------ Python values
Null == <<"None">>

Missing == <<"(no attribute)">>

UpperAlpha ==
    <<"A", "B", "C", "D", "E", "F", "G", "H", "I", "J", "K", "L", "M",
      "N", "O", "P", "Q", "R", "S", "T", "U", "V", "W", "X", "Y", "Z">>

LowerAlpha ==
    <<"a", "b", "c", "d", "e", "f", "g", "h", "i", "j", "k", "l", "m",
      "n", "o", "p", "q", "r", "s", "t", "u", "v", "w", "x", "y", "z">>

Digits == <<"0", "1", "2", "3", "4", "5", "6", "7", "8", "9">>

IsUpper(c) == \E i \in DOMAIN UpperAlpha : UpperAlpha[i] = c

IsLower(c) == \E i \in DOMAIN LowerAlpha : LowerAlpha[i] = c

IsCased(c) == IsUpper(c) \/ IsLower(c)

\* ord(c): the code point of a character
ord(c) ==
    IF IsUpper(c) THEN 64 + (CHOOSE i \in DOMAIN UpperAlpha : UpperAlpha[i] = c)
    ELSE IF IsLower(c) THEN 96 + (CHOOSE i \in DOMAIN LowerAlpha : LowerAlpha[i] = c)
    ELSE IF \E i \in DOMAIN Digits : Digits[i] = c
         THEN 47 + (CHOOSE i \in DOMAIN Digits : Digits[i] = c)
    ELSE IF c = " " THEN 32
    ELSE IF c = "-" THEN 45
    ELSE 95

lower_char(c) ==
    IF IsUpper(c) THEN LowerAlpha[CHOOSE i \in DOMAIN UpperAlpha : UpperAlpha[i] = c] ELSE c

upper_char(c) ==
    IF IsLower(c) THEN UpperAlpha[CHOOSE i \in DOMAIN LowerAlpha : LowerAlpha[i] = c] ELSE c

\* str.lower()
str_lower(s) == [i \in 1..Len(s) |-> lower_char(s[i])]

\* str.title(): a cased character after an uncased one (or at the start) is
\* upper-cased, every other cased character is lower-cased
str_title(s) ==
    [i \in 1..Len(s) |->
        IF i = 1 \/ ~IsCased(s[i - 1]) THEN upper_char(s[i]) ELSE lower_char(s[i])]

\* a < b for two str (code point order, a proper prefix first)
str_lt(a, b) ==
    LET n == IF Len(a) < Len(b) THEN Len(a) ELSE Len(b)
        diff == {i \in 1..n : a[i] # b[i]}
    IN  IF diff = {} THEN Len(a) < Len(b)
        ELSE LET k == CHOOSE i \in diff : \A j \in diff : i <= j
             IN  ord(a[k]) < ord(b[k])

\* bool(x) of a str, a list or None
Truthy(x) == x # Null /\ x # <<>>

\* getattr(obj, name, default)
getattr(obj, name, default) == IF obj[name] = Missing THEN default ELSE obj[name]

\* dict.get(key, default) of a dict literal written as a sequence of <<key, value>>
dict_get(d, key, default) ==
    IF \E i \in DOMAIN d : d[i][1] = key
    THEN d[CHOOSE i \in DOMAIN d : d[i][1] = key][2]
    ELSE default

\* isinstance(exc, Exception)
IsException(exc) ==
    exc \in {"RuntimeError", "AttributeError", "ValidationError", "ValueError", "TypeError"}

\* --------------------------------------------------------------- schemas
IntegrationStatus ==
    [ACTIVE |-> "active", INACTIVE |-> "inactive", PENDING |-> "pending",
     ERROR |-> "error", DISABLED |-> "disabled"]

ConnectionHealth ==
    [HEALTHY |-> "healthy", WARNING |-> "warning", ERROR |-> "error",
     UNKNOWN |-> "unknown"]

\* IntegrationConnection(account_id, status, created_at, error_message)
IntegrationConnection(account_id, status, created_at, error_message) ==
    [account_id |-> account_id, status |-> status, created_at |-> created_at,
     last_used |-> Null, error_message |-> error_message]

\* ------------------------------------------------ IntegrationService helpers
CountStatus(connections, st) ==
    Cardinality({i \in DOMAIN connections : connections[i].status = st})

\* error_ratio = error_count / total_count, kept as the fraction; the
\* comparison with 0.5 is done on the fraction
RatioAboveHalf_mut(num, den) == 2 * num >= den

\* error_ratio > 0.5
RatioAboveHalf(num, den) == 2 * num > den

_get_health_status(connections) ==
    IF connections = <<>> THEN ConnectionHealth.UNKNOWN
    ELSE LET active_count == CountStatus(connections, IntegrationStatus.ACTIVE)
             error_count == CountStatus(connections, IntegrationStatus.ERROR)
             total_count == Len(connections)
         IN  IF error_count > 0
             THEN IF RatioAboveHalf(error_count, total_count)
                  THEN ConnectionHealth.ERROR
                  ELSE ConnectionHealth.WARNING
             ELSE IF active_count > 0 THEN ConnectionHealth.HEALTHY
             ELSE ConnectionHealth.WARNING

\* an f-string is its text with {} for each placeholder, and the values
fstring(text, values) == [text |-> text, values |-> values]

_get_health_message(health, connections) ==
    LET total == Len(connections)
        active == CountStatus(connections, IntegrationStatus.ACTIVE)
        errors == CountStatus(connections, IntegrationStatus.ERROR)
    IN  IF health = ConnectionHealth.HEALTHY
        THEN fstring("All {} connections are healthy", <<active>>)
        ELSE IF health = ConnectionHealth.WARNING
        THEN IF active = 0
             THEN fstring("No active connections out of {}", <<total>>)
             ELSE fstring("{} active, {} with issues", <<active, errors>>)
        ELSE IF health = ConnectionHealth.ERROR
        THEN fstring("{} connections have errors", <<errors>>)
        ELSE fstring("No connections established", <<>>)

\* ------------------------------------------------------- string literals
S_active == <<"a", "c", "t", "i", "v", "e">>

S_enabled == <<"e", "n", "a", "b", "l", "e", "d">>

S_connected == <<"c", "o", "n", "n", "e", "c", "t", "e", "d">>

S_inactive == <<"i", "n", "a", "c", "t", "i", "v", "e">>

S_disabled == <<"d", "i", "s", "a", "b", "l", "e", "d">>

S_disconnected == <<"d", "i", "s", "c", "o", "n", "n", "e", "c", "t", "e", "d">>

S_pending == <<"p", "e", "n", "d", "i", "n", "g">>

S_initiated == <<"i", "n", "i", "t", "i", "a", "t", "e", "d">>

S_error == <<"e", "r", "r", "o", "r">>

S_failed == <<"f", "a", "i", "l", "e", "d">>

S_Other == <<"O", "t", "h", "e", "r">>

S_slack == <<"s", "l", "a", "c", "k">>

S_Slack == <<"S", "l", "a", "c", "k">>

S_SLACK == <<"S", "L", "A", "C", "K">>

S_github == <<"g", "i", "t", "h", "u", "b">>

S_FAILED == <<"F", "A", "I", "L", "E", "D">>

S_Connected == <<"C", "o", "n", "n", "e", "c", "t", "e", "d">>

S_Pending == <<"P", "e", "n", "d", "i", "n", "g">>

S_foobar == <<"f", "o", "o", "b", "a", "r">>

T_f ==
    <<"2", "0", "2", "4", "-", "0", "1", "-", "1", "5", "T", "1", "0", ":", "3", "0", ":", "0", "0", ".", "1", "2", "3", "Z">>

T_Z ==
    <<"2", "0", "2", "4", "-", "0", "1", "-", "1", "5", "T", "1", "0", ":", "3", "0", ":", "0", "0", "Z">>

T_space ==
    <<"2", "0", "2", "4", "-", "0", "1", "-", "1", "5", " ", "1", "0", ":", "3", "0", ":", "0", "0">>

T_lower ==
    <<"2", "0", "2", "4", "-", "1", "-", "5", "t", "9", ":", "0", "5", ":", "0", "7", "z">>

T_offset ==
    <<"2", "0", "2", "4", "-", "0", "1", "-", "1", "5", "T", "1", "0", ":", "3", "0", ":", "0", "0", "+", "0", "0", ":", "0", "0">>

T_feb30 ==
    <<"2", "0", "2", "3", "-", "0", "2", "-", "3", "0", " ", "1", "0", ":", "0", "0", ":", "0", "0">>

T_garbage ==
    <<"g", "a", "r", "b", "a", "g", "e">>

S_connect == <<"c", "o", "n", "n", "e", "c", "t">>

S_disconnect == <<"d", "i", "s", "c", "o", "n", "n", "e", "c", "t">>

S_refresh == <<"r", "e", "f", "r", "e", "s", "h">>

S_enable == <<"e", "n", "a", "b", "l", "e">>

S_disable == <<"d", "i", "s", "a", "b", "l", "e">>

S_Refresh == <<"R", "e", "f", "r", "e", "s", "h">>

S_remove == <<"r", "e", "m", "o", "v", "e">>

S_hi == <<"h", "i">>

S_blank == <<" ">>

S_c1 == <<"c", "1">>

S_unknownservice123 == <<"u", "n", "k", "n", "o", "w", "n", "s", "e", "r", "v", "i", "c", "e", "1", "2", "3">>

S_Communication == <<"C", "o", "m", "m", "u", "n", "i", "c", "a", "t", "i", "o", "n">>

S_Team_Collaboration == <<"T", "e", "a", "m", " ", "C", "o", "l", "l", "a", "b", "o", "r", "a", "t", "i", "o", "n">>

S_Developer_Tools == <<"D", "e", "v", "e", "l", "o", "p", "e", "r", " ", "T", "o", "o", "l", "s">>

name_mapping ==
    <<
      << <<"g", "m", "a", "i", "l">>,
         <<"G", "m", "a", "i", "l">> >>,
      << <<"g", "o", "o", "g", "l", "e", "s", "h", "e", "e", "t", "s">>,
         <<"G", "o", "o", "g", "l", "e", " ", "S", "h", "e", "e", "t", "s">> >>,
      << <<"g", "o", "o", "g", "l", "e", "d", "r", "i", "v", "e">>,
         <<"G", "o", "o", "g", "l", "e", " ", "D", "r", "i", "v", "e">> >>,
      << <<"g", "o", "o", "g", "l", "e", "c", "a", "l", "e", "n", "d", "a", "r">>,
         <<"G", "o", "o", "g", "l", "e", " ", "C", "a", "l", "e", "n", "d", "a", "r">> >>,
      << <<"s", "l", "a", "c", "k">>,
         <<"S", "l", "a", "c", "k">> >>,
      << <<"d", "i", "s", "c", "o", "r", "d">>,
         <<"D", "i", "s", "c", "o", "r", "d">> >>,
      << <<"g", "i", "t", "h", "u", "b">>,
         <<"G", "i", "t", "H", "u", "b">> >>,
      << <<"g", "i", "t", "l", "a", "b">>,
         <<"G", "i", "t", "L", "a", "b">> >>,
      << <<"t", "r", "e", "l", "l", "o">>,
         <<"T", "r", "e", "l", "l", "o">> >>,
      << <<"a", "s", "a", "n", "a">>,
         <<"A", "s", "a", "n", "a">> >>,
      << <<"n", "o", "t", "i", "o", "n">>,
         <<"N", "o", "t", "i", "o", "n">> >>,
      << <<"h", "u", "b", "s", "p", "o", "t">>,
         <<"H", "u", "b", "S", "p", "o", "t">> >>,
      << <<"s", "a", "l", "e", "s", "f", "o", "r", "c", "e">>,
         <<"S", "a", "l", "e", "s", "f", "o", "r", "c", "e">> >>,
      << <<"z", "e", "n", "d", "e", "s", "k">>,
         <<"Z", "e", "n", "d", "e", "s", "k">> >>,
      << <<"i", "n", "t", "e", "r", "c", "o", "m">>,
         <<"I", "n", "t", "e", "r", "c", "o", "m">> >>,
      << <<"s", "t", "r", "i", "p", "e">>,
         <<"S", "t", "r", "i", "p", "e">> >>,
      << <<"p", "a", "y", "p", "a", "l">>,
         <<"P", "a", "y", "P", "a", "l">> >>,
      << <<"d", "r", "o", "p", "b", "o", "x">>,
         <<"D", "r", "o", "p", "b", "o", "x">> >>,
      << <<"o", "n", "e", "d", "r", "i", "v", "e">>,
         <<"O", "n", "e", "D", "r", "i", "v", "e">> >>,
      << <<"z", "o", "o", "m">>,
         <<"Z", "o", "o", "m">> >>,
      << <<"t", "e", "a", "m", "s">>,
         <<"M", "i", "c", "r", "o", "s", "o", "f", "t", " ", "T", "e", "a", "m", "s">> >>,
      << <<"l", "i", "n", "e", "a", "r">>,
         <<"L", "i", "n", "e", "a", "r">> >>,
      << <<"f", "i", "g", "m", "a">>,
         <<"F", "i", "g", "m", "a">> >>,
      << <<"a", "i", "r", "t", "a", "b", "l", "e">>,
         <<"A", "i", "r", "t", "a", "b", "l", "e">> >>
    >>

category_mapping ==
    <<
      << <<"s", "l", "a", "c", "k">>,
         << <<"C", "o", "m", "m", "u", "n", "i", "c", "a", "t", "i", "o", "n">>,
            <<"T", "e", "a", "m", " ", "C", "o", "l", "l", "a", "b", "o", "r", "a", "t", "i", "o", "n">> >> >>,
      << <<"d", "i", "s", "c", "o", "r", "d">>,
         << <<"C", "o", "m", "m", "u", "n", "i", "c", "a", "t", "i", "o", "n">>,
            <<"G", "a", "m", "i", "n", "g">> >> >>,
      << <<"t", "e", "a", "m", "s">>,
         << <<"C", "o", "m", "m", "u", "n", "i", "c", "a", "t", "i", "o", "n">>,
            <<"M", "i", "c", "r", "o", "s", "o", "f", "t">>,
            <<"V", "i", "d", "e", "o", " ", "C", "o", "n", "f", "e", "r", "e", "n", "c", "i", "n", "g">> >> >>,
      << <<"z", "o", "o", "m">>,
         << <<"C", "o", "m", "m", "u", "n", "i", "c", "a", "t", "i", "o", "n">>,
            <<"V", "i", "d", "e", "o", " ", "C", "o", "n", "f", "e", "r", "e", "n", "c", "i", "n", "g">> >> >>,
      << <<"g", "m", "a", "i", "l">>,
         << <<"E", "m", "a", "i", "l">>,
            <<"G", "o", "o", "g", "l", "e">>,
            <<"C", "o", "m", "m", "u", "n", "i", "c", "a", "t", "i", "o", "n">> >> >>,
      << <<"o", "u", "t", "l", "o", "o", "k">>,
         << <<"E", "m", "a", "i", "l">>,
            <<"M", "i", "c", "r", "o", "s", "o", "f", "t">>,
            <<"C", "o", "m", "m", "u", "n", "i", "c", "a", "t", "i", "o", "n">> >> >>,
      << <<"n", "o", "t", "i", "o", "n">>,
         << <<"P", "r", "o", "d", "u", "c", "t", "i", "v", "i", "t", "y">>,
            <<"N", "o", "t", "e", " ", "T", "a", "k", "i", "n", "g">>,
            <<"C", "o", "l", "l", "a", "b", "o", "r", "a", "t", "i", "o", "n">> >> >>,
      << <<"a", "i", "r", "t", "a", "b", "l", "e">>,
         << <<"P", "r", "o", "d", "u", "c", "t", "i", "v", "i", "t", "y">>,
            <<"D", "a", "t", "a", "b", "a", "s", "e">>,
            <<"C", "o", "l", "l", "a", "b", "o", "r", "a", "t", "i", "o", "n">> >> >>,
      << <<"t", "r", "e", "l", "l", "o">>,
         << <<"P", "r", "o", "d", "u", "c", "t", "i", "v", "i", "t", "y">>,
            <<"P", "r", "o", "j", "e", "c", "t", " ", "M", "a", "n", "a", "g", "e", "m", "e", "n", "t">> >> >>,
      << <<"a", "s", "a", "n", "a">>,
         << <<"P", "r", "o", "d", "u", "c", "t", "i", "v", "i", "t", "y">>,
            <<"P", "r", "o", "j", "e", "c", "t", " ", "M", "a", "n", "a", "g", "e", "m", "e", "n", "t">> >> >>,
      << <<"l", "i", "n", "e", "a", "r">>,
         << <<"P", "r", "o", "d", "u", "c", "t", "i", "v", "i", "t", "y">>,
            <<"P", "r", "o", "j", "e", "c", "t", " ", "M", "a", "n", "a", "g", "e", "m", "e", "n", "t">>,
            <<"D", "e", "v", "e", "l", "o", "p", "m", "e", "n", "t">> >> >>,
      << <<"g", "i", "t", "h", "u", "b">>,
         << <<"D", "e", "v", "e", "l", "o", "p", "m", "e", "n", "t">>,
            <<"V", "e", "r", "s", "i", "o", "n", " ", "C", "o", "n", "t", "r", "o", "l">>,
            <<"C", "o", "d", "e">> >> >>,
      << <<"g", "i", "t", "l", "a", "b">>,
         << <<"D", "e", "v", "e", "l", "o", "p", "m", "e", "n", "t">>,
            <<"V", "e", "r", "s", "i", "o", "n", " ", "C", "o", "n", "t", "r", "o", "l">>,
            <<"C", "o", "d", "e">> >> >>,
      << <<"f", "i", "g", "m", "a">>,
         << <<"D", "e", "v", "e", "l", "o", "p", "m", "e", "n", "t">>,
            <<"D", "e", "s", "i", "g", "n">>,
            <<"C", "o", "l", "l", "a", "b", "o", "r", "a", "t", "i", "o", "n">> >> >>,
      << <<"g", "o", "o", "g", "l", "e", "s", "h", "e", "e", "t", "s">>,
         << <<"G", "o", "o", "g", "l", "e">>,
            <<"S", "p", "r", "e", "a", "d", "s", "h", "e", "e", "t">>,
            <<"P", "r", "o", "d", "u", "c", "t", "i", "v", "i", "t", "y">> >> >>,
      << <<"g", "o", "o", "g", "l", "e", "d", "r", "i", "v", "e">>,
         << <<"G", "o", "o", "g", "l", "e">>,
            <<"S", "t", "o", "r", "a", "g", "e">>,
            <<"F", "i", "l", "e", " ", "M", "a", "n", "a", "g", "e", "m", "e", "n", "t">> >> >>,
      << <<"g", "o", "o", "g", "l", "e", "c", "a", "l", "e", "n", "d", "a", "r">>,
         << <<"G", "o", "o", "g", "l", "e">>,
            <<"C", "a", "l", "e", "n", "d", "a", "r">>,
            <<"S", "c", "h", "e", "d", "u", "l", "i", "n", "g">> >> >>,
      << <<"h", "u", "b", "s", "p", "o", "t">>,
         << <<"C", "R", "M">>,
            <<"S", "a", "l", "e", "s">>,
            <<"M", "a", "r", "k", "e", "t", "i", "n", "g">> >> >>,
      << <<"s", "a", "l", "e", "s", "f", "o", "r", "c", "e">>,
         << <<"C", "R", "M">>,
            <<"S", "a", "l", "e", "s">>,
            <<"E", "n", "t", "e", "r", "p", "r", "i", "s", "e">> >> >>,
      << <<"z", "e", "n", "d", "e", "s", "k">>,
         << <<"S", "u", "p", "p", "o", "r", "t">>,
            <<"C", "u", "s", "t", "o", "m", "e", "r", " ", "S", "e", "r", "v", "i", "c", "e">> >> >>,
      << <<"i", "n", "t", "e", "r", "c", "o", "m">>,
         << <<"S", "u", "p", "p", "o", "r", "t">>,
            <<"C", "u", "s", "t", "o", "m", "e", "r", " ", "S", "e", "r", "v", "i", "c", "e">>,
            <<"C", "o", "m", "m", "u", "n", "i", "c", "a", "t", "i", "o", "n">> >> >>,
      << <<"s", "t", "r", "i", "p", "e">>,
         << <<"P", "a", "y", "m", "e", "n", "t">>,
            <<"F", "i", "n", "a", "n", "c", "i", "a", "l">>,
            <<"E", "-", "c", "o", "m", "m", "e", "r", "c", "e">> >> >>,
      << <<"p", "a", "y", "p", "a", "l">>,
         << <<"P", "a", "y", "m", "e", "n", "t">>,
            <<"F", "i", "n", "a", "n", "c", "i", "a", "l">>,
            <<"E", "-", "c", "o", "m", "m", "e", "r", "c", "e">> >> >>,
      << <<"d", "r", "o", "p", "b", "o", "x">>,
         << <<"S", "t", "o", "r", "a", "g", "e">>,
            <<"F", "i", "l", "e", " ", "M", "a", "n", "a", "g", "e", "m", "e", "n", "t">> >> >>,
      << <<"o", "n", "e", "d", "r", "i", "v", "e">>,
         << <<"S", "t", "o", "r", "a", "g", "e">>,
            <<"F", "i", "l", "e", " ", "M", "a", "n", "a", "g", "e", "m", "e", "n", "t">>,
            <<"M", "i", "c", "r", "o", "s", "o", "f", "t">> >> >>
    >>

_normalize_provider_name(provider) ==
    dict_get(name_mapping, str_lower(provider), str_title(provider))

_categorize_service_mut(provider, categories) ==
    IF Truthy(categories) THEN categories
    ELSE dict_get(category_mapping, provider, <<S_Other>>)

_categorize_service(provider, categories) ==
    IF Truthy(categories) THEN categories
    ELSE dict_get(category_mapping, str_lower(provider), <<S_Other>>)

_parse_connection_status_mut(status) ==
    IF status \in {S_active, S_enabled, S_connected}
    THEN IntegrationStatus.ACTIVE
    ELSE IF status \in {S_inactive, S_disabled, S_disconnected}
    THEN IntegrationStatus.INACTIVE
    ELSE IF status \in {S_pending, S_initiated}
    THEN IntegrationStatus.PENDING
    ELSE IF status \in {S_error, S_failed}
    THEN IntegrationStatus.ERROR
    ELSE IntegrationStatus.INACTIVE

_parse_connection_status(status) ==
    LET status_lower == str_lower(status)
    IN  IF status_lower \in {S_active, S_enabled, S_connected}
        THEN IntegrationStatus.ACTIVE
        ELSE IF status_lower \in {S_inactive, S_disabled, S_disconnected}
        THEN IntegrationStatus.INACTIVE
        ELSE IF status_lower \in {S_pending, S_initiated}
        THEN IntegrationStatus.PENDING
        ELSE IF status_lower \in {S_error, S_failed}
        THEN IntegrationStatus.ERROR
        ELSE IntegrationStatus.INACTIVE

\* a value of the vendor that is not a str (a number, a datetime object)
NotAStr == <<"(not a str)">>

\* the three formats, as the directives and literal characters they consist of
Format_f ==
    <<"%Y", "-", "%m", "-", "%d", "T", "%H", ":", "%M", ":", "%S", ".", "%f", "Z">>

Format_Z == <<"%Y", "-", "%m", "-", "%d", "T", "%H", ":", "%M", ":", "%S", "Z">>

Format_space == <<"%Y", "-", "%m", "-", "%d", " ", "%H", ":", "%M", ":", "%S">>

DatetimeFormats == <<Format_f, Format_Z, Format_space>>

IsDigit(c) == \E i \in DOMAIN Digits : Digits[i] = c

\* int(s[p .. p+w-1]) of a run of digits
DigitsValue(s, p, w) ==
    LET acc[n \in 0..w] ==
            IF n = 0 THEN 0
            ELSE 10 * acc[n - 1] + (CHOOSE i \in DOMAIN Digits : Digits[i] = s[p + n - 1]) - 1
    IN  acc[w]

\* the widths a directive of strptime may take
DirectiveWidths(dir) ==
    CASE dir = "%Y" -> {4}
      [] dir = "%f" -> 1..6
      [] OTHER -> {1, 2}

\* the regular expression of a directive: %m 1[0-2]|0[1-9]|[1-9], %d
\* 3[01]|[12]\d|0[1-9]|[1-9], %H 2[0-3]|[01]\d|\d, %M [0-5]\d|\d, %S
\* 6[01]|[0-5]\d|\d, %Y \d\d\d\d, %f [0-9]{1,6}
DirectiveAccepts(dir, w, v) ==
    CASE dir = "%m" -> v >= 1 /\ v <= (IF w = 2 THEN 12 ELSE 9)
      [] dir = "%d" -> v >= 1 /\ v <= (IF w = 2 THEN 31 ELSE 9)
      [] dir = "%H" -> v <= 23
      [] dir = "%M" -> v <= 59
      [] dir = "%S" -> v <= 61
      [] OTHER -> TRUE

\* the ways the format from its i-th element on matches s from position p to its
\* end: the fields read, as a set (empty when there is no match).  The expression
\* is compiled with IGNORECASE; a blank of the format matches one blank or more.
RECURSIVE MatchFormat(_, _, _, _)
MatchFormat(fmt, s, i, p) ==
    IF i > Len(fmt) THEN (IF p = Len(s) + 1 THEN {<<>>} ELSE {})
    ELSE IF fmt[i] = " "
    THEN UNION {MatchFormat(fmt, s, i + 1, p + w) :
                   w \in {n \in 1..(Len(s) - p + 1) :
                             \A k \in p..(p + n - 1) : s[k] = " "}}
    ELSE IF fmt[i] \notin {"%Y", "%m", "%d", "%H", "%M", "%S", "%f"}
    THEN IF p <= Len(s) /\ lower_char(s[p]) = lower_char(fmt[i])
         THEN MatchFormat(fmt, s, i + 1, p + 1)
         ELSE {}
    ELSE UNION {{<<[directive |-> fmt[i], value |-> DigitsValue(s, p, w), width |-> w]>>
                    \o rest : rest \in MatchFormat(fmt, s, i + 1, p + w)} :
                   w \in {n \in DirectiveWidths(fmt[i]) :
                             /\ p + n - 1 <= Len(s)
                             /\ \A k \in p..(p + n - 1) : IsDigit(s[k])
                             /\ DirectiveAccepts(fmt[i], n, DigitsValue(s, p, n))}}

DaysInMonth(year, month) ==
    IF month \in {4, 6, 9, 11} THEN 30
    ELSE IF month # 2 THEN 31
    ELSE IF year % 4 = 0 /\ (year % 100 # 0 \/ year % 400 = 0) THEN 29 ELSE 28

\* the value of the field of a directive among the fields read, 0 if there is none
FieldValue(fields, dir) ==
    IF \E k \in DOMAIN fields : fields[k].directive = dir
    THEN fields[CHOOSE k \in DOMAIN fields : fields[k].directive = dir].value
    ELSE 0

\* %f is padded with zeros on the right to six digits
Microsecond(fields) ==
    IF \E k \in DOMAIN fields : fields[k].directive = "%f"
    THEN LET fld == fields[CHOOSE k \in DOMAIN fields : fields[k].directive = "%f"]
             pad[n \in 0..6] == IF n = 0 THEN fld.value ELSE 10 * pad[n - 1]
         IN  pad[6 - fld.width]
    ELSE 0

\* datetime(year, month, day, hour, minute, second, microsecond)
datetime(year, month, day, hour, minute, second, microsecond) ==
    <<"datetime", year, month, day, hour, minute, second, microsecond>>

\* datetime.strptime, once the fields have been read: the datetime, or ValueError
\* for a day that the month does not have
DatetimeOfFields(fields) ==
    LET year == FieldValue(fields, "%Y")
        month == FieldValue(fields, "%m")
        day == FieldValue(fields, "%d")
        second == FieldValue(fields, "%S")
    IN  IF year < 1 \/ day > DaysInMonth(year, month) \/ second > 59
        THEN [exc |-> "ValueError", value |-> Null]
        ELSE [exc |-> "none",
              value |-> datetime(year, month, day, FieldValue(fields, "%H"),
                                 FieldValue(fields, "%M"), second, Microsecond(fields))]

\* datetime.strptime, once the string has been matched against the format in
\* the ways of `found`
DatetimeOfMatch(found) ==
    IF found = {} THEN [exc |-> "ValueError", value |-> Null]
    ELSE DatetimeOfFields(CHOOSE m \in found : TRUE)

\* datetime.strptime(dt_string, fmt): the datetime, or the exception raised:
\* TypeError for an argument that is not a str, ValueError for a string that
\* does not match the format
strptime(dt_string, fmt) ==
    IF dt_string = NotAStr THEN [exc |-> "TypeError", value |-> Null]
    ELSE DatetimeOfMatch(MatchFormat(fmt, dt_string, 1, 1))

\* except ValueError: continue
except_ValueError(exc) == exc = "ValueError"

except_datetime_mut(exc) == FALSE

\* except Exception: return None
except_datetime(exc) == IsException(exc)

\* the loop of _parse_datetime over what strptime gives for each format, in
\* order: a record of the exception raised ("none" if it returns) and the value
\* returned
FirstParsed(tries) ==
    LET \* the formats tried: up to the first that does not raise ValueError
        last == IF \E k \in DOMAIN tries : ~except_ValueError(tries[k].exc)
                THEN CHOOSE k \in DOMAIN tries :
                        /\ ~except_ValueError(tries[k].exc)
                        /\ \A j \in 1..(k - 1) : except_ValueError(tries[j].exc)
                ELSE 0
    IN  IF last = 0 THEN [exc |-> "none", value |-> Null]
        ELSE IF tries[last].exc = "none" THEN tries[last]
        ELSE IF except_datetime(tries[last].exc) THEN [exc |-> "none", value |-> Null]
        ELSE tries[last]

\* _parse_datetime: a record of the exception it raises ("none" if it returns)
\* and the value it returns
_parse_datetime(dt_string) ==
    IF ~Truthy(dt_string) THEN [exc |-> "none", value |-> Null]
    ELSE FirstParsed([k \in DOMAIN DatetimeFormats |->
                         strptime(dt_string, DatetimeFormats[k])])

\* ------------------------------------------------------ program constants
ToolkitLimit == 100

ActionLimit == 10

PopularLimit == 5

\* ------------------------------------------------------------------ state
Users == {"u1", "u2"}

\* the user whose requests are followed
Caller == "u1"

VARIABLES
    initialized,  \* composio_service.initialized
    apps,         \* the vendor's toolkit objects, in the order it lists them
    accounts,     \* the vendor's connected-account objects of each user
    clock,        \* datetime.utcnow()
    req,          \* the frame of each user's get_integration_dashboard call
    service,      \* gemini_service: _initialized, _client and the calls made on it
    stream        \* the event_generator of POST /stream and what it has sent

vars == <<initialized, apps, accounts, clock, req, service, stream>>

\* ----------------------------------------------- ComposioService (vendor side)
\* the dict get_available_toolkits builds from one toolkit object
ToolkitDict(toolkit) ==
    [slug |-> getattr(toolkit, "slug", <<>>),
     name |-> getattr(toolkit, "name", <<>>),
     description |-> getattr(toolkit, "description", <<>>),
     logo |-> getattr(toolkit, "logo", <<>>),
     categories |-> getattr(toolkit, "categories", <<>>),
     auth_schemes |-> getattr(toolkit, "auth_schemes", <<>>)]

get_available_toolkits(toolkit_items) ==
    [i \in 1..Len(toolkit_items) |-> ToolkitDict(toolkit_items[i])]

\* the dict list_connected_accounts builds from one account object
AccountDict(account) ==
    [account_id |-> account.id,
     status |-> account.status,
     provider |-> getattr(account, "appName", <<>>),
     created_at |-> getattr(account, "createdAt", Null)]

list_connected_accounts(accts) ==
    [i \in 1..Len(accts) |-> AccountDict(accts[i])]

\* one call of this request on the connector, as the vendor sees it
VendorCall(op, arg, limit) ==
    [op |-> op, arg |-> arg, limit |-> limit, outcome |-> "pending", n |-> 0]

\* ------------------------------------------------------------- exceptions
except_toolkits_mut(exc) == FALSE

\* except Exception (toolkits fetch)
except_toolkits(exc) == IsException(exc)

except_connections_mut(exc) == exc = "AttributeError"

\* except Exception (connections fetch)
except_connections(exc) == IsException(exc)

except_actions_mut(exc) == exc = "AttributeError"

\* except Exception (action-list fetch)
except_actions(exc) == IsException(exc)

except_outer_mut(exc) == exc = "RuntimeError"

\* except Exception (the whole of get_integration_dashboard)
except_outer(exc) == IsException(exc)

\* ------------------------------------------------ get_integration_dashboard
IntegrationDashboardDefault(user_id, now) ==
    [user_id |-> user_id, total_integrations |-> 0, connected_integrations |-> 0,
     total_connections |-> 0, healthy_connections |-> 0, categories |-> <<>>,
     popular_integrations |-> <<>>, integrations |-> <<>>,
     composio_health |-> FALSE, last_updated |-> now]

GroupKey(provider) == str_lower(provider)

\* connections_by_provider[key].append(conn) on a defaultdict(list)
dict_append(d, key, v) ==
    IF \E i \in DOMAIN d : d[i][1] = key
    THEN LET i == CHOOSE j \in DOMAIN d : d[j][1] = key
         IN  [d EXCEPT ![i] = <<key, Append(d[i][2], v)>>]
    ELSE Append(d, <<key, <<v>>>>)

\* conn.get('provider', '').lower() of a None provider
GroupRaises(conns) == \E i \in DOMAIN conns : conns[i].provider = Null

GroupConnections(conns) ==
    LET g[n \in 0..Len(conns)] ==
            IF n = 0 THEN <<>>
            ELSE dict_append(g[n - 1], GroupKey(conns[n].provider), conns[n])
    IN  g[Len(conns)]

SkipToolkit_mut(provider) == FALSE

\* if not provider: continue
SkipToolkit(provider) == ~Truthy(provider)

LookupKey_mut(provider) == provider

LookupKey(provider) == str_lower(provider)

\* what the conversion of one connection raises: status.lower() of a None status,
\* or what _parse_datetime lets through; "none" if it raises nothing
ConnectionException(conn) ==
    IF conn.status = Null THEN "AttributeError"
    ELSE _parse_datetime(conn.created_at).exc

ConvertRaises(provider_connections) ==
    \E i \in DOMAIN provider_connections :
        ConnectionException(provider_connections[i]) # "none"

\* the exception of the first connection whose conversion raises
ConvertException(provider_connections) ==
    ConnectionException(provider_connections[
        CHOOSE i \in DOMAIN provider_connections :
            /\ ConnectionException(provider_connections[i]) # "none"
            /\ \A j \in 1..(i - 1) : ConnectionException(provider_connections[j]) = "none"])

ConvertConnections(provider_connections) ==
    [i \in 1..Len(provider_connections) |->
        LET conn == provider_connections[i]
            status == _parse_connection_status(conn.status)
        IN  IntegrationConnection(conn.account_id, status,
                                  _parse_datetime(conn.created_at).value, Null)]

\* connections_by_provider.get(provider.lower(), [])
ProviderConnections(toolkit, by_provider) ==
    dict_get(by_provider, LookupKey(toolkit.slug), <<>>)

\* the locals of one loop iteration up to the await of get_toolkit_actions
ToolkitLocals(toolkit, provider_connections) ==
    LET provider == toolkit.slug
        integration_connections == ConvertConnections(provider_connections)
        health == _get_health_status(integration_connections)
    IN  [provider |-> provider,
         integration_connections |-> integration_connections,
         total_conns |-> Len(integration_connections),
         active_conns |-> CountStatus(integration_connections, IntegrationStatus.ACTIVE),
         inactive_conns |-> CountStatus(integration_connections, IntegrationStatus.INACTIVE),
         error_conns |-> CountStatus(integration_connections, IntegrationStatus.ERROR),
         health |-> health,
         health_message |-> _get_health_message(health, integration_connections),
         categories |-> _categorize_service(provider, toolkit.categories)]

IntegrationSummary(toolkit, loc, available_actions) ==
    [provider |-> loc.provider,
     display_name |-> _normalize_provider_name(loc.provider),
     description |-> toolkit.description,
     logo_url |-> toolkit.logo,
     categories |-> loc.categories,
     total_connections |-> loc.total_conns,
     active_connections |-> loc.active_conns,
     inactive_connections |-> loc.inactive_conns,
     error_connections |-> loc.error_conns,
     health |-> loc.health,
     health_message |-> loc.health_message,
     has_auth_config |-> FALSE,
     auth_schemes |-> toolkit.auth_schemes,
     available_actions |-> available_actions,
     last_connection_attempt |-> Null,
     connections |-> loc.integration_connections]

\* the key (-total_connections, display_name) of a before that of b
SortKeyLess_mut(a, b) == a.total_connections > b.total_connections

SortKeyLess(a, b) ==
    \/ a.total_connections > b.total_connections
    \/ /\ a.total_connections = b.total_connections
       /\ str_lt(a.display_name, b.display_name)

\* list.sort(key=...): stable
SortIntegrations(s) ==
    LET n == Len(s)
        pos(i) == 1 + Cardinality({j \in 1..n :
                        \/ SortKeyLess(s[j], s[i])
                        \/ (~SortKeyLess(s[i], s[j]) /\ j < i)})
    IN  [p \in 1..n |-> s[CHOOSE i \in 1..n : pos(i) = p]]

\* sorted(..., key=lambda x: x.total_connections, reverse=True): stable
SortPopular(s) ==
    LET n == Len(s)
        pos(i) == 1 + Cardinality({j \in 1..n :
                        \/ s[j].total_connections > s[i].total_connections
                        \/ (s[j].total_connections = s[i].total_connections /\ j < i)})
    IN  [p \in 1..n |-> s[CHOOSE i \in 1..n : pos(i) = p]]

\* sorted(list(all_categories))
SortedCategories_mut(cats) ==
    LET pos(c) == 1 + Cardinality({d \in cats : str_lt(c, d)})
    IN  [p \in 1..Cardinality(cats) |-> CHOOSE c \in cats : pos(c) = p]

SortedCategories(cats) ==
    LET pos(c) == 1 + Cardinality({d \in cats : str_lt(d, c)})
    IN  [p \in 1..Cardinality(cats) |-> CHOOSE c \in cats : pos(c) = p]

IsConnected_mut(i) == i.total_connections >= 0

\* i.total_connections > 0
IsConnected(i) == i.total_connections > 0

CountConnected(s) == Cardinality({i \in DOMAIN s : IsConnected(s[i])})

SumTotalConnections(s) ==
    LET acc[n \in 0..Len(s)] ==
            IF n = 0 THEN 0 ELSE acc[n - 1] + s[n].total_connections
    IN  acc[Len(s)]

SumActiveConnections_mut(s) ==
    LET acc[n \in 0..Len(s)] ==
            IF n = 0 THEN 0
            ELSE acc[n - 1] + s[n].active_connections + s[n].inactive_connections
    IN  acc[Len(s)]

SumActiveConnections(s) ==
    LET acc[n \in 0..Len(s)] ==
            IF n = 0 THEN 0 ELSE acc[n - 1] + s[n].active_connections
    IN  acc[Len(s)]

Range(s) == {s[i] : i \in DOMAIN s}

Head5_mut(s) == s

\* [:5]
Head5(s) == SubSeq(s, 1, IF Len(s) < PopularLimit THEN Len(s) ELSE PopularLimit)

\* from the sort of the summaries to the returned IntegrationDashboard
AssembleDashboard(user_id, summaries, all_categories, now) ==
    LET integrations == SortIntegrations(summaries)
        popular == Head5(SortPopular(SelectSeq(integrations, IsConnected)))
    IN  [user_id |-> user_id,
         total_integrations |-> Len(integrations),
         connected_integrations |-> CountConnected(integrations),
         total_connections |-> SumTotalConnections(integrations),
         healthy_connections |-> SumActiveConnections(integrations),
         categories |-> SortedCategories(all_categories),
         popular_integrations |-> [i \in 1..Len(popular) |-> popular[i].provider],
         integrations |-> integrations,
         composio_health |-> TRUE,
         last_updated |-> now]

\* the frame of a call that has not started
NewFrame(pc) ==
    [pc |-> pc, outcome |-> "none", toolkits |-> <<>>, connections |-> <<>>,
     connections_by_provider |-> <<>>, integrations |-> <<>>,
     all_categories |-> {}, tk |-> 0, loc |-> <<>>, calls |-> <<>>,
     result |-> <<>>, entry |-> "get_integration_dashboard", stats |-> <<>>,
     history |-> <<>>, request |-> <<>>, response |-> <<>>]

\* return <dashboard>
Return(f, dashboard) ==
    [f EXCEPT !.pc = "done", !.outcome = "returned", !.result = <<dashboard>>]

\* an exception raised in the body of the outer try
Raise(f, exc, user_id, now) ==
    IF except_outer(exc)
    THEN Return(f, IntegrationDashboardDefault(user_id, now))
    ELSE [f EXCEPT !.pc = "done", !.outcome = "raised"]

\* the vendor call that is outstanding has returned (ok) or raised
Resolve(calls, ok, n) ==
    [calls EXCEPT ![Len(calls)] =
        [@ EXCEPT !.outcome = IF ok THEN "ok" ELSE "raised", !.n = n]]

NextToolkit_mut(tks, from) ==
    IF \E k \in from..Len(tks) : ~SkipToolkit(tks[k].slug)
    THEN CHOOSE k \in from..Len(tks) :
            /\ ~SkipToolkit(tks[k].slug)
            /\ \A j \in (k + 1)..Len(tks) : SkipToolkit(tks[j].slug)
    ELSE 0

\* the first toolkit at or after position from that the loop does not skip; 0 if none
NextToolkit(tks, from) ==
    IF \E k \in from..Len(tks) : ~SkipToolkit(tks[k].slug)
    THEN CHOOSE k \in from..Len(tks) :
            /\ ~SkipToolkit(tks[k].slug)
            /\ \A j \in from..(k - 1) : SkipToolkit(tks[j].slug)
    ELSE 0

\* for toolkit in toolkits, from position from up to the next await, or to the return
LoopFrom(f, from, user_id, now) ==
    LET k == NextToolkit(f.toolkits, from)
    IN  IF k = 0
        THEN Return(f, AssembleDashboard(user_id, f.integrations, f.all_categories, now))
        ELSE LET toolkit == f.toolkits[k]
                 provider_connections ==
                     ProviderConnections(toolkit, f.connections_by_provider)
             IN  IF ConvertRaises(provider_connections)
                 THEN Raise([f EXCEPT !.tk = k], ConvertException(provider_connections),
                            user_id, now)
                 ELSE LET loc == ToolkitLocals(toolkit, provider_connections)
                      IN  [f EXCEPT !.tk = k, !.loc = loc,
                                    !.all_categories = @ \cup Range(loc.categories),
                                    !.pc = "await_actions",
                                    !.calls = Append(@, VendorCall("get_toolkit_actions",
                                                                  loc.provider, ActionLimit))]

\* the vendor lists k actions for the k-th toolkit object
ActionsListed(k) == k

\* what the vendor may answer to get_toolkit_actions for the k-th toolkit: a
\* failure, or the list of its actions
ActionResponses(k) ==
    {[ok |-> FALSE, n |-> 0], [ok |-> TRUE, n |-> ActionsListed(k)]}

\* ------------------------------------------- the handler, await to await
ConnectorUnavailable_mut(is_initialized) == FALSE

\* if not self.composio.initialized
ConnectorUnavailable(is_initialized) == ~is_initialized

\* the call up to its first await
CallStep(f, user_id, is_initialized, now) ==
    IF ConnectorUnavailable(is_initialized)
    THEN Return(f, IntegrationDashboardDefault(user_id, now))
    ELSE [f EXCEPT !.pc = "await_toolkits",
                   !.calls = Append(@, VendorCall("get_available_toolkits",
                                                 <<>>, ToolkitLimit))]

\* get_available_toolkits returns or raises; up to the await of list_connected_accounts
ToolkitsStep(f, user_id, ok, toolkit_items, now) ==
    LET f0 == [f EXCEPT !.calls = Resolve(@, ok, IF ok THEN Len(toolkit_items) ELSE 0)]
    IN  IF ~ok /\ ~except_toolkits("RuntimeError")
        THEN Raise(f0, "RuntimeError", user_id, now)
        ELSE [f0 EXCEPT !.toolkits = IF ok THEN get_available_toolkits(toolkit_items)
                                      ELSE <<>>,
                        !.pc = "await_connections",
                        !.calls = Append(@, VendorCall("list_connected_accounts",
                                                      <<user_id>>, 0))]

\* list_connected_accounts returns or raises; grouping; the loop up to its first await
ConnectionsStep(f, user_id, ok, accts, now) ==
    LET f0 == [f EXCEPT !.calls = Resolve(@, ok, IF ok THEN Len(accts) ELSE 0)]
        f1 == [f0 EXCEPT !.connections =
                  IF ok THEN list_connected_accounts(accts) ELSE <<>>]
    IN  IF ~ok /\ ~except_connections("RuntimeError")
        THEN Raise(f0, "RuntimeError", user_id, now)
        ELSE IF GroupRaises(f1.connections)
        THEN Raise(f1, "AttributeError", user_id, now)
        ELSE LoopFrom([f1 EXCEPT !.connections_by_provider =
                          GroupConnections(f1.connections)], 1, user_id, now)

\* get_toolkit_actions returns or raises; the summary; the loop up to its next await
ActionsStep(f, user_id, resp, now) ==
    LET f0 == [f EXCEPT !.calls = Resolve(@, resp.ok, resp.n)]
        available_actions == IF resp.ok THEN resp.n ELSE 0
        f1 == [f0 EXCEPT !.integrations =
                  Append(@, IntegrationSummary(f0.toolkits[f0.tk], f0.loc,
                                               available_actions))]
    IN  IF ~resp.ok /\ ~except_actions("RuntimeError")
        THEN Raise(f0, "RuntimeError", user_id, now)
        ELSE LoopFrom(f1, f0.tk + 1, user_id, now)

\* ------------------------------------------------- get_integration_stats
\* .replace(' ', '_')
str_replace_space(s) == [i \in 1..Len(s) |-> IF s[i] = " " THEN "_" ELSE s[i]]

\* the passes of the inner loop, in order: for integration in
\* dashboard.integrations: for category in integration.categories
CategoryPasses(integrations) ==
    LET acc[n \in 0..Len(integrations)] ==
            IF n = 0 THEN <<>>
            ELSE acc[n - 1] \o
                 [k \in 1..Len(integrations[n].categories) |->
                     [integration |-> integrations[n],
                      category |-> integrations[n].categories[k]]]
    IN  acc[Len(integrations)]

\* the keys of category_stats, in the order of their insertion
CategoryKeys(passes) ==
    LET firsts == {p \in DOMAIN passes :
                      \A q \in 1..(p - 1) : passes[q].category # passes[p].category}
    IN  [r \in 1..Cardinality(firsts) |->
            passes[CHOOSE p \in firsts :
                      Cardinality({q \in firsts : q < p}) = r - 1].category]

\* category_stats[cat_name] when the loops are over: 'services' is a set of
\* slugs, 'connected' was incremented in every pass of the category made for an
\* integration with total_connections > 0
CategoryStats(passes, cat_name) ==
    LET mine == {p \in DOMAIN passes : passes[p].category = cat_name}
    IN  [services |-> {passes[p].integration.provider : p \in mine},
         connected |-> Cardinality({p \in mine :
                                      passes[p].integration.total_connections > 0})]

\* services is list(stats['services']): the slugs of the set in an order the
\* code does not fix; the model keeps the set
IntegrationCategory(cat_name, stats) ==
    [name |-> str_replace_space(str_lower(cat_name)),
     display_name |-> cat_name,
     service_count |-> Cardinality(stats.services),
     connected_count |-> stats.connected,
     services |-> stats.services]

CategoryBefore_mut(a, b) == a.connected_count < b.connected_count

\* key=lambda x: x.connected_count, reverse=True
CategoryBefore(a, b) == a.connected_count > b.connected_count

\* categories.sort(...): stable, reverse=True keeps the order of equal keys
SortCategories(s) ==
    LET n == Len(s)
        pos(i) == 1 + Cardinality({j \in 1..n :
                        \/ CategoryBefore(s[j], s[i])
                        \/ (~CategoryBefore(s[i], s[j]) /\ j < i)})
    IN  [p \in 1..n |-> s[CHOOSE i \in 1..n : pos(i) = p]]

SumErrorConnections_mut(s) ==
    LET acc[n \in 0..Len(s)] ==
            IF n = 0 THEN 0 ELSE acc[n - 1] + s[n].inactive_connections
    IN  acc[Len(s)]

\* sum(i.error_connections for i in dashboard.integrations)
SumErrorConnections(s) ==
    LET acc[n \in 0..Len(s)] ==
            IF n = 0 THEN 0 ELSE acc[n - 1] + s[n].error_connections
    IN  acc[Len(s)]

\* get_integration_stats from the return of get_integration_dashboard on
IntegrationStats(dashboard) ==
    LET passes == CategoryPasses(dashboard.integrations)
        keys == CategoryKeys(passes)
        categories == [r \in 1..Len(keys) |->
                          IntegrationCategory(keys[r], CategoryStats(passes, keys[r]))]
    IN  [total_available |-> dashboard.total_integrations,
         total_connected |-> dashboard.connected_integrations,
         total_connections |-> dashboard.total_connections,
         active_connections |-> dashboard.healthy_connections,
         failed_connections |-> SumErrorConnections(dashboard.integrations),
         categories |-> SortCategories(categories),
         connection_trend |-> <<>>]

\* ------------------------------------------------------------ endpoints
\* round(100 * num / den, 1), in tenths: the nearest tenth, the even one of two
\* that are equally near (with fewer than 16 connections none are)
RoundedTenths(num, den) ==
    LET q == (1000 * num) \div den
        r == (1000 * num) % den
    IN  IF 2 * r > den \/ (2 * r = den /\ q % 2 = 1) THEN q + 1 ELSE q

HealthyThreshold_mut(healthy, total) == 100 * healthy > 80 * total

\* health_percentage >= 80, for health_percentage = healthy / total * 100
HealthyThreshold(healthy, total) == 100 * healthy >= 80 * total

\* health_percentage >= 60
WarningThreshold(healthy, total) == 100 * healthy >= 60 * total

\* GET /health from the return of get_integration_dashboard on
IntegrationHealth(dashboard) ==
    LET total_connections == dashboard.total_connections
        healthy_connections == dashboard.healthy_connections
        \* (healthy / total * 100) if total > 0 else 100, as a fraction
        num == IF total_connections > 0 THEN healthy_connections ELSE 1
        den == IF total_connections > 0 THEN total_connections ELSE 1
    IN  [composio_health |-> dashboard.composio_health,
         total_connections |-> total_connections,
         healthy_connections |-> healthy_connections,
         failed_connections |-> SumErrorConnections(dashboard.integrations),
         health_percentage_tenths |-> RoundedTenths(num, den),
         status |-> IF HealthyThreshold(num, den) THEN "healthy"
                    ELSE IF WarningThreshold(num, den) THEN "warning"
                    ELSE "critical",
         last_updated |-> dashboard.last_updated]

\* the classes an exception is an instance of
ExceptionClasses(cls) ==
    CASE cls = "ValidationError" -> {"ValidationError", "KronosException", "Exception"}
      [] cls = "ComposioError" ->
            {"ComposioError", "ExternalServiceError", "KronosException", "Exception"}
      [] cls = "GeminiError" ->
            {"GeminiError", "ExternalServiceError", "KronosException", "Exception"}
      [] cls = "ConfigurationError" ->
            {"ConfigurationError", "KronosException", "Exception"}
      [] OTHER -> {cls, "Exception"}

isinstance(cls, base) == base \in ExceptionClasses(cls)

\* the vendor operation of an action of POST /action
ActionOperation(action) ==
    CASE action = S_connect -> "enhanced_initiate_connection"
      [] action = S_disconnect -> "delete_connected_account"
      [] action = S_refresh -> "refresh_connected_account"
      [] action = S_enable -> "enable_connected_account"
      [] action = S_disable -> "disable_connected_account"
      [] OTHER -> "none"

\* the body of the try of perform_integration_action: the exception it raises
\* ("none" if it returns), the response or the exception's data, and the vendor
\* calls made; vendor_ok says whether the vendor operation, if there is one,
\* succeeds
ActionBody(request, is_initialized, vendor_ok) ==
    LET provider == request.provider
        action == str_lower(request.action)
        op == ActionOperation(action)
        arg == IF action = S_connect THEN provider ELSE request.connection_id
        call == [VendorCall(op, arg, 0) EXCEPT
                    !.outcome = IF vendor_ok THEN "ok" ELSE "raised"]
    IN  IF ~is_initialized
        THEN [raised |-> "HTTPException", status_code |-> 503,
              detail |-> fstring("Composio service not available", <<>>),
              calls |-> <<>>]
        ELSE IF op = "none"
        THEN [raised |-> "ValidationError", status_code |-> 422,
              detail |-> fstring("Unknown action: {}", <<action>>), calls |-> <<>>]
        ELSE IF action # S_connect /\ ~Truthy(request.connection_id)
        THEN [raised |-> "ValidationError", status_code |-> 422,
              detail |-> fstring("Connection ID required for {} action", <<action>>),
              calls |-> <<>>]
        ELSE IF ~vendor_ok
        THEN [raised |-> "RuntimeError", status_code |-> 0,
              detail |-> fstring("Failed vendor operation {}", <<op>>),
              calls |-> <<call>>]
        ELSE [raised |-> "none", status_code |-> 200,
              detail |-> fstring("{} {}", <<action, provider>>), calls |-> <<call>>]

except_ValidationError_mut(cls) == FALSE

\* except ValidationError as e
except_ValidationError(cls) == isinstance(cls, "ValidationError")

\* except ComposioError as e
except_ComposioError(cls) == isinstance(cls, "ComposioError")

\* except Exception as e (perform_integration_action)
except_action_Exception(cls) == isinstance(cls, "Exception")

\* perform_integration_action: the response, or the HTTPException that leaves it
perform_integration_action(request, is_initialized, vendor_ok) ==
    LET body == ActionBody(request, is_initialized, vendor_ok)
    IN  [calls |-> body.calls,
         response |->
            IF body.raised = "none"
            THEN [status_code |-> 200, detail |-> body.detail]
            ELSE IF except_ValidationError(body.raised)
            THEN [status_code |-> 400, detail |-> body.detail]
            ELSE IF except_ComposioError(body.raised)
            THEN [status_code |-> 503, detail |-> body.detail]
            ELSE IF except_action_Exception(body.raised)
            THEN [status_code |-> 500,
                  detail |-> fstring("Failed to perform action '{}' on {}: {}",
                                     <<str_lower(request.action), request.provider,
                                       body.detail>>)]
            ELSE [status_code |-> body.status_code, detail |-> body.detail]]

\* what the vendor holds after an operation: delete_connected_account removes the
\* account; what the other operations change at the vendor is not in the source
VendorAfter(accts, calls) ==
    IF calls # <<>> /\ calls[1].op = "delete_connected_account"
                   /\ calls[1].outcome = "ok"
    THEN [u \in DOMAIN accts |->
             SelectSeq(accts[u], LAMBDA a : a.id # calls[1].arg)]
    ELSE accts

\* the caller of get_integration_dashboard goes on when it has returned:
\* get_integration_stats computes its result, an endpoint has nothing to add
AfterDashboard(f) ==
    IF f.pc = "done" /\ f.outcome = "returned" /\ f.entry = "get_integration_stats"
    THEN [f EXCEPT !.stats = <<IntegrationStats(f.result[1])>>]
    ELSE IF f.pc = "done" /\ f.entry = "get_integration_health"
    THEN [f EXCEPT !.response =
             <<IF f.outcome = "returned"
               THEN [status_code |-> 200, body |-> IntegrationHealth(f.result[1])]
               ELSE [status_code |-> 500,
                     detail |-> fstring("Failed to get integration health: {}",
                                        <<f.outcome>>)]>>]
    ELSE f

\* get_integration_stats up to the first await of the dashboard it calls
StatsCallStep(f, user_id, is_initialized, now) ==
    CallStep([f EXCEPT !.entry = "get_integration_stats"], user_id, is_initialized, now)

\* what a finished call leaves to be compared with later calls
FinishedCall(f) ==
    [entry |-> f.entry, calls |-> f.calls, outcome |-> f.outcome,
     result |-> f.result, stats |-> f.stats, request |-> f.request,
     response |-> f.response]

FreshLocals_mut(f) == f

\* every call starts from its own toolkits, connections, connections_by_provider,
\* integrations and all_categories
FreshLocals(f) ==
    [f EXCEPT !.toolkits = <<>>, !.connections = <<>>,
              !.connections_by_provider = <<>>, !.integrations = <<>>,
              !.all_categories = {}]

\* the frame of the next call of a user whose call is over
NextCallFrame(f) ==
    [FreshLocals(f) EXCEPT !.pc = "ready", !.outcome = "none", !.tk = 0,
                           !.loc = <<>>, !.calls = <<>>, !.result = <<>>,
                           !.stats = <<>>, !.request = <<>>, !.response = <<>>,
                           !.entry = "get_integration_dashboard",
                           !.history = Append(f.history, FinishedCall(f))]

\* the bodies of POST /action: every action name, one in mixed case and one that
\* is unknown; a connection_id that is absent, empty, or that of an account
ActionRequests ==
    {[provider |-> S_slack, action |-> a, connection_id |-> c] :
        a \in {S_connect, S_disconnect, S_refresh, S_enable, S_disable, S_Refresh,
               S_remove},
        c \in {Null, <<>>, <<"a", "1">>}}

\* --------------------------------------------------------------- actions
\* a call of u is between its first vendor call and its return
Running(u) == req[u].pc \in {"await_toolkits", "await_connections", "await_actions"}

\* the methods of the connector are coroutines without an await of their own and
\* call the vendor's synchronous client: a call that has started runs to its
\* return without yielding the event loop, and no other call starts meanwhile
EventLoopFree(u) == \A v \in Users \ {u} : ~Running(v)

Call(u) ==
    /\ req[u].pc = "ready"
    /\ EventLoopFree(u)
    /\ req' = [req EXCEPT ![u] = AfterDashboard(CallStep(@, u, initialized, clock))]
    /\ clock' = clock + 1
    /\ UNCHANGED <<initialized, apps, accounts, service, stream>>

ToolkitsReturn(u) ==
    /\ req[u].pc = "await_toolkits"
    /\ \E ok \in BOOLEAN :
          req' = [req EXCEPT ![u] = AfterDashboard(ToolkitsStep(@, u, ok, apps, clock))]
    /\ clock' = clock + 1
    /\ UNCHANGED <<initialized, apps, accounts, service, stream>>

ConnectionsReturn(u) ==
    /\ req[u].pc = "await_connections"
    /\ \E ok \in BOOLEAN :
          req' = [req EXCEPT ![u] =
                     AfterDashboard(ConnectionsStep(@, u, ok, accounts[u], clock))]
    /\ clock' = clock + 1
    /\ UNCHANGED <<initialized, apps, accounts, service, stream>>

ActionsReturn(u) ==
    /\ req[u].pc = "await_actions"
    /\ \E resp \in ActionResponses(req[u].tk) :
          req' = [req EXCEPT ![u] = AfterDashboard(ActionsStep(@, u, resp, clock))]
    /\ clock' = clock + 1
    /\ UNCHANGED <<initialized, apps, accounts, service, stream>>

Next ==
    \E u \in Users :
        Call(u) \/ ToolkitsReturn(u) \/ ConnectionsReturn(u) \/ ActionsReturn(u)

\* get_integration_stats(u) is called
StatsCall(u) ==
    /\ req[u].pc = "ready"
    /\ EventLoopFree(u)
    /\ req' = [req EXCEPT ![u] =
                 AfterDashboard(StatsCallStep(@, u, initialized, clock))]
    /\ clock' = clock + 1
    /\ UNCHANGED <<initialized, apps, accounts, service, stream>>

\* GET /health for u
HealthCall(u) ==
    /\ req[u].pc = "ready"
    /\ EventLoopFree(u)
    /\ req' = [req EXCEPT ![u] =
                 AfterDashboard(CallStep([@ EXCEPT !.entry = "get_integration_health"],
                                         u, initialized, clock))]
    /\ clock' = clock + 1
    /\ UNCHANGED <<initialized, apps, accounts, service, stream>>

NextHealth ==
    \E u \in Users :
        HealthCall(u) \/ ToolkitsReturn(u) \/ ConnectionsReturn(u) \/ ActionsReturn(u)

\* POST /action of u: the connector's methods do not yield, so the handler runs
\* from the request to the response in one step
PerformAction(u) ==
    /\ req[u].pc = "ready"
    /\ EventLoopFree(u)
    /\ \E request \in ActionRequests : \E vendor_ok \in BOOLEAN :
          LET r == perform_integration_action(request, initialized, vendor_ok)
          IN  /\ req' = [req EXCEPT ![u] =
                        [@ EXCEPT !.entry = "perform_integration_action",
                                  !.pc = "done",
                                  !.outcome = IF r.response.status_code = 200
                                              THEN "returned" ELSE "raised",
                                  !.request = <<request>>,
                                  !.response = <<r.response>>,
                                  !.calls = r.calls]]
              /\ accounts' = VendorAfter(accounts, r.calls)
    /\ clock' = clock + 1
    /\ UNCHANGED <<initialized, apps, service, stream>>

\* both entry points of the service
NextStats ==
    \E u \in Users :
        \/ Call(u) \/ StatsCall(u)
        \/ ToolkitsReturn(u) \/ ConnectionsReturn(u) \/ ActionsReturn(u)

\* the call of u is over and u is about to call the service again
Again(u) ==
    /\ req[u].pc = "done"
    /\ Len(req[u].history) + 1 < MaxCalls
    /\ req' = [req EXCEPT ![u] = NextCallFrame(@)]
    /\ UNCHANGED <<initialized, apps, accounts, clock, service, stream>>

\* POST /action, again and again
NextActions == \E u \in Users : PerformAction(u) \/ Again(u)

\* both entry points, called again and again
NextRepeat ==
    \E u \in Users :
        \/ Call(u) \/ StatsCall(u) \/ Again(u)
        \/ ToolkitsReturn(u) \/ ConnectionsReturn(u) \/ ActionsReturn(u)

\* ----------------------------------------------------------- BaseService
\* BaseService.__init__
BaseService == [_initialized |-> FALSE, _client |-> Null, log |-> <<>>]

\* what initialize() finds: the settings, whether google.generativeai can be
\* imported, whether configure and GenerativeModel return, and what the test
\* prompt gives; all is well or one thing is wrong
Environment(settings, package, model, test) ==
    [settings |-> settings, package |-> package, model |-> model, test |-> test]

Environments ==
    {Environment("ok", TRUE, TRUE, "ok"),
     Environment("no_gemini", TRUE, TRUE, "ok"),
     Environment("no_api_key", TRUE, TRUE, "ok"),
     Environment("ok", FALSE, TRUE, "ok"),
     Environment("ok", TRUE, FALSE, "ok"),
     Environment("ok", TRUE, TRUE, "empty"),
     Environment("ok", TRUE, TRUE, "raises")}

\* GeminiService._validate_configuration: the exception it raises
_validate_configuration(env) ==
    IF env.settings = "no_gemini" THEN "ConfigurationError"
    ELSE IF env.settings = "no_api_key" THEN "ConfigurationError"
    ELSE "none"

\* the GenerativeModel objects made so far
Constructed(log) ==
    Cardinality({i \in 1..Len(log) : log[i].op = "initialize" /\ log[i].constructed})

\* a new GenerativeModel object
GenerativeModel(log) == <<"GenerativeModel", Constructed(log) + 1>>

\* GeminiService._test_connection: the exception it raises
_test_connection(env) ==
    LET inner == IF env.test = "raises" THEN "Exception"
                 ELSE IF env.test = "empty" THEN "GeminiError"
                 ELSE "none"
    IN  IF inner # "none" /\ isinstance(inner, "Exception") THEN "GeminiError" ELSE inner

\* GeminiService._initialize_client: the exception it raises and self._client
\* when it is left
_initialize_client(s, env) ==
    IF ~env.package
    THEN [raised |-> "ConfigurationError", _client |-> s._client, constructed |-> FALSE]
    ELSE IF ~env.model
    THEN [raised |-> "GeminiError", _client |-> s._client, constructed |-> FALSE]
    ELSE [raised |-> IF _test_connection(env) # "none" THEN "GeminiError" ELSE "none",
          _client |-> GenerativeModel(s.log), constructed |-> TRUE]

AlreadyInitialized_mut(s) == FALSE

\* if self._initialized: return
AlreadyInitialized(s) == s._initialized

\* the fields of the service a call can change
Fields(s) == [_initialized |-> s._initialized, _client |-> s._client]

\* a call on the service, as the log keeps it
LogEntry(op, s, after, validated, constructed, raised, returned) ==
    [op |-> op, before |-> Fields(s), after |-> Fields(after), validated |-> validated,
     constructed |-> constructed, raised |-> raised, returned |-> returned]

Logged(s, after, entry) ==
    [_initialized |-> after._initialized, _client |-> after._client,
     log |-> Append(s.log, entry)]

\* BaseService.initialize
initialize(s, env) ==
    IF AlreadyInitialized(s)
    THEN Logged(s, s, LogEntry("initialize", s, s, FALSE, FALSE, "none", Null))
    ELSE LET v == _validate_configuration(env)
             c == _initialize_client(s, env)
         IN  IF v # "none"
             THEN Logged(s, s, LogEntry("initialize", s, s, TRUE, FALSE, v, Null))
             ELSE IF c.raised # "none"
             THEN LET after == [s EXCEPT !._client = c._client]
                  IN  Logged(s, after,
                             LogEntry("initialize", s, after, TRUE, c.constructed,
                                      c.raised, Null))
             ELSE LET after == [s EXCEPT !._client = c._client, !._initialized = TRUE]
                  IN  Logged(s, after,
                             LogEntry("initialize", s, after, TRUE, TRUE, "none", Null))

\* BaseService.reset
reset(s) ==
    LET after == [s EXCEPT !._initialized = FALSE, !._client = Null]
    IN  Logged(s, after, LogEntry("reset", s, after, FALSE, FALSE, "none", Null))

\* BaseService.client: the exception it raises and what it returns
client(s) ==
    IF ~s._initialized \/ ~Truthy(s._client)
    THEN [raised |-> "RuntimeError", returned |-> Null]
    ELSE [raised |-> "none", returned |-> s._client]

\* gemini_service.initialize()
Initialize ==
    /\ Len(service.log) < MaxOps
    /\ \E env \in Environments : service' = initialize(service, env)
    /\ UNCHANGED <<initialized, apps, accounts, clock, req, stream>>

\* gemini_service.reset()
Reset ==
    /\ Len(service.log) < MaxOps
    /\ service' = reset(service)
    /\ UNCHANGED <<initialized, apps, accounts, clock, req, stream>>

\* gemini_service.client
GetClient ==
    /\ Len(service.log) < MaxOps
    /\ service' = Logged(service, service,
                         LogEntry("client", service, service, FALSE, FALSE,
                                  client(service).raised, client(service).returned))
    /\ UNCHANGED <<initialized, apps, accounts, clock, req, stream>>

NextService == Initialize \/ Reset \/ GetClient

\* ----------------------------------------------------------- POST /stream
IsSpace(c) == c \in {" ", "\t", "\n", "\r"}

RECURSIVE str_lstrip(_)
str_lstrip(s) == IF s # <<>> /\ IsSpace(Head(s)) THEN str_lstrip(Tail(s)) ELSE s

RECURSIVE str_rstrip(_)
str_rstrip(s) ==
    IF s # <<>> /\ IsSpace(s[Len(s)]) THEN str_rstrip(SubSeq(s, 1, Len(s) - 1)) ELSE s

\* str.strip()
str_strip(s) == str_rstrip(str_lstrip(s))

\* the default of system_prompt
DefaultSystemPrompt ==
    fstring("You are Kronos, a helpful AI assistant. You are knowledgeable, friendly, and concise in your responses.", <<>>)

\* the lines of conversation_context of one message of the history
ContextLine(msg) ==
    IF msg.role = "user" THEN <<fstring("User: {}", <<msg.content>>)>>
    ELSE IF msg.role = "assistant" THEN <<fstring("Assistant: {}", <<msg.content>>)>>
    ELSE <<>>

RECURSIVE ConversationContext(_)
ConversationContext(history) ==
    IF history = <<>> THEN <<>>
    ELSE ContextLine(Head(history)) \o ConversationContext(Tail(history))

\* the arguments of generate_text_stream: the prompt, as the lines that "\n"
\* joins, and the system prompt
StreamArguments(request) ==
    LET system_prompt == IF Truthy(request.system_prompt) THEN request.system_prompt
                         ELSE DefaultSystemPrompt
    IN  IF request.conversation_history # Null /\ request.conversation_history # <<>>
        THEN [prompt |-> <<system_prompt, <<>>>>
                         \o ConversationContext(request.conversation_history)
                         \o <<fstring("User: {}", <<request.message>>),
                              fstring("Assistant:", <<>>)>>,
              system_prompt |-> Null]
        ELSE [prompt |-> <<request.message>>, system_prompt |-> system_prompt]

\* the stream of POST /stream before a request
NoStream ==
    [pc |-> "idle", request |-> <<>>, arguments |-> <<>>, conversation_id |-> Null,
     events |-> <<>>, chunks |-> 0, raised |-> "none"]

\* get_optional_gemini_service: the service, or None
get_optional_gemini_service(s) == IF s._initialized THEN <<"GeminiService", s>> ELSE Null

\* stream_chat up to the StreamingResponse: the exception it raises
stream_chat(request, gemini_service) ==
    IF gemini_service = Null THEN "ConfigurationError"
    ELSE IF ~Truthy(str_strip(request.message)) THEN "ValidationError"
    ELSE "none"

\* request.conversation_id or f"conv_{user_id}_{uuid.uuid4().hex[:8]}"
ConversationId(request, user_id, hex) ==
    IF Truthy(request.conversation_id) THEN request.conversation_id
    ELSE fstring("conv_{}_{}", <<user_id, hex>>)

ConversationIdEvent(conversation_id) ==
    [type |-> "conversation_id", data |-> conversation_id]

ContentEvent(chunk, conversation_id, now) ==
    [type |-> "content", data |-> chunk, conversation_id |-> conversation_id,
     timestamp |-> now]

DoneEvent(conversation_id, now) ==
    [type |-> "done", conversation_id |-> conversation_id, timestamp |-> now]

ErrorEvent(e, now) == [type |-> "error", error |-> e, timestamp |-> now]

except_stream_mut(cls) == FALSE

\* except Exception as e (event_generator)
except_stream(cls) == isinstance(cls, "Exception")

\* the generator is left by an exception: the error event, if the exception is
\* caught
StreamRaise(st, cls, e, now) ==
    [st EXCEPT !.pc = "closed", !.raised = cls,
               !.events = IF except_stream(cls) THEN Append(@, ErrorEvent(e, now))
                          ELSE @]

\* what generate_text_stream does before its first chunk: the exception raised
\* ("none" if the vendor's stream is open); generate_ok says whether
\* generate_content returns
generate_text_stream(s, generate_ok) ==
    IF ~s._initialized
    THEN [raised |-> "GeminiError", e |-> fstring("Gemini service not initialized", <<>>)]
    ELSE IF client(s).raised # "none"
    THEN [raised |-> "GeminiError",
          e |-> fstring("Failed to generate text stream: {}", <<client(s).raised>>)]
    ELSE IF ~generate_ok
    THEN [raised |-> "GeminiError",
          e |-> fstring("Failed to generate text stream: {}", <<"generate_content">>)]
    ELSE [raised |-> "none", e |-> <<>>]

\* event_generator from one yield to the next: the vendor's stream gives
\* `skipped` chunks without text and then a chunk with text, its end, or an
\* exception
StreamStep(st, s, generate_ok, skipped, outcome, text, now) ==
    LET opening == IF st.pc = "started" THEN generate_text_stream(s, generate_ok)
                   ELSE [raised |-> "none", e |-> <<>>]
    IN  IF opening.raised # "none"
        THEN StreamRaise(st, opening.raised, opening.e, now)
        ELSE IF outcome = "raises"
        THEN StreamRaise([st EXCEPT !.chunks = @ + skipped], "GeminiError",
                         fstring("Failed to generate text stream: {}", <<"chunk">>), now)
        ELSE IF outcome = "end"
        THEN [st EXCEPT !.pc = "closed", !.chunks = @ + skipped,
                        !.events = Append(@, DoneEvent(st.conversation_id, now))]
        ELSE [st EXCEPT !.pc = "generating", !.chunks = @ + skipped + 1,
                        !.events = Append(@, ContentEvent(text, st.conversation_id, now))]

\* the bodies of POST /stream
StreamRequests ==
    [message : {S_hi, S_blank}, conversation_id : {Null, <<>>, S_c1},
     system_prompt : {Null},
     conversation_history : {Null, <<[role |-> "user", content |-> S_hi],
                                     [role |-> "system", content |-> S_c1]>>}]

\* POST /stream arrives: stream_chat up to its return
StreamChat ==
    /\ stream.pc = "idle"
    /\ \E request \in StreamRequests :
          LET raised == stream_chat(request, get_optional_gemini_service(service))
          IN  stream' = [stream EXCEPT
                            !.pc = IF raised = "none" THEN "opened" ELSE "rejected",
                            !.request = <<request>>,
                            !.arguments = IF raised = "none"
                                          THEN <<StreamArguments(request)>> ELSE <<>>,
                            !.raised = raised]
    /\ UNCHANGED <<initialized, apps, accounts, clock, req, service>>

\* event_generator up to its first yield
SendConversationId ==
    /\ stream.pc = "opened"
    /\ \E hex \in {<<"0", "1">>, <<"a", "f">>} :
          LET conversation_id == ConversationId(stream.request[1], Caller, hex)
          IN  stream' = [stream EXCEPT
                            !.pc = "started",
                            !.conversation_id = conversation_id,
                            !.events = Append(@, ConversationIdEvent(conversation_id))]
    /\ UNCHANGED <<initialized, apps, accounts, clock, req, service>>

\* event_generator from one yield to the next, or to its end
Generate ==
    /\ stream.pc \in {"started", "generating"}
    /\ \E generate_ok \in BOOLEAN : \E skipped \in 0..1 :
       \E outcome \in {"text", "end", "raises"} : \E text \in {S_hi} :
          /\ stream.chunks + skipped + (IF outcome = "end" THEN 0 ELSE 1) <= MaxChunks
          /\ stream' = StreamStep(stream, service, generate_ok, skipped, outcome, text,
                                  clock)
    /\ clock' = clock + 1
    /\ UNCHANGED <<initialized, apps, accounts, req, service>>

NextStream == StreamChat \/ SendConversationId \/ Generate \/ Reset

\* ------------------------------------------------------------ vendor data
SeqUpTo(S, n) == UNION {[1..k -> S] : k \in 0..n}

\* a toolkit object that has a slug and categories and no other attribute
ToolkitObject(slug, categories) ==
    [slug |-> slug, name |-> Missing, description |-> Missing, logo |-> Missing,
     categories |-> categories, auth_schemes |-> Missing]

AppSlugs == {<<>>, S_slack, S_Slack, S_github}

ToolkitObjects == {ToolkitObject(slug, Missing) : slug \in AppSlugs}

\* the id of the i-th account: "a1", "a2", ...
AccountId(i) == <<"a", Digits[i + 1]>>

\* what distinguishes one account object from another: its appName and its status
AccountShapes ==
    {[appName |-> S_slack, status |-> S_active],
     [appName |-> S_SLACK, status |-> S_FAILED],
     [appName |-> S_github, status |-> S_active],
     [appName |-> S_slack, status |-> Null]}

\* account objects with an empty, absent or None appName, or a None status, too
RecordShapes ==
    AccountShapes \cup
    {[appName |-> <<>>, status |-> S_active],
     [appName |-> Missing, status |-> S_FAILED],
     [appName |-> Null, status |-> S_active]}

AccountObjects(shapes) ==
    [i \in 1..Len(shapes) |->
        [id |-> AccountId(i), status |-> shapes[i].status,
         appName |-> shapes[i].appName, createdAt |-> Missing]]

Frames == [u \in Users |-> NewFrame(IF u = Caller THEN "ready" ELSE "absent")]

Init ==
    /\ initialized \in BOOLEAN
    /\ apps \in SeqUpTo(ToolkitObjects, MaxToolkits)
    /\ \E shapes \in SeqUpTo(AccountShapes, MaxConns) :
          accounts = [u \in Users |-> IF u = Caller THEN AccountObjects(shapes) ELSE <<>>]
    /\ clock = 0
    /\ req = Frames
    /\ service = BaseService
    /\ stream = NoStream

Spec == Init /\ [][Next]_vars

\* one toolkit, slack, and accounts of slack in every status
HealthStatuses == {S_active, S_inactive, S_pending, S_error}

InitHealth ==
    /\ initialized = TRUE
    /\ apps = <<ToolkitObject(S_slack, Missing)>>
    /\ \E sts \in SeqUpTo(HealthStatuses, MaxHealthConns) :
          accounts = [u \in Users |->
              IF u = Caller
              THEN AccountObjects([i \in 1..Len(sts) |-> [appName |-> S_slack, status |-> sts[i]]])
              ELSE <<>>]
    /\ clock = 0
    /\ req = Frames
    /\ service = BaseService
    /\ stream = NoStream

SpecHealth == InitHealth /\ [][Next]_vars

\* three toolkits, one of them without a slug, and accounts of every shape
InitRecords ==
    /\ initialized = TRUE
    /\ apps = <<ToolkitObject(<<>>, Missing), ToolkitObject(S_Slack, Missing),
                ToolkitObject(S_github, Missing)>>
    /\ \E shapes \in SeqUpTo(RecordShapes, MaxConns) :
          accounts = [u \in Users |-> IF u = Caller THEN AccountObjects(shapes) ELSE <<>>]
    /\ clock = 0
    /\ req = Frames
    /\ service = BaseService
    /\ stream = NoStream

SpecRecords == InitRecords /\ [][Next]_vars

\* the slug of the i-th toolkit of the popular-list specification: "s1", "s2", ...
PopularSlug(i) == <<"s", Digits[i + 1]>>

\* k toolkits; the first j of them have no account, the others one, the d-th
\* (if it is among the others) two
PopularAccounts(k, j, d) ==
    LET owner(n) == IF d > j /\ n = k - j + 1 THEN d ELSE j + n
        count == (k - j) + (IF d > j THEN 1 ELSE 0)
    IN  AccountObjects([n \in 1..count |->
                           [appName |-> PopularSlug(owner(n)), status |-> S_active]])

InitPopular ==
    /\ initialized = TRUE
    /\ \E k \in 0..MaxPopular : \E j \in 0..k : \E d \in 0..k :
          /\ apps = [i \in 1..k |-> ToolkitObject(PopularSlug(i), Missing)]
          /\ accounts = [u \in Users |->
                IF u = Caller THEN PopularAccounts(k, j, d) ELSE <<>>]
    /\ clock = 0
    /\ req = Frames
    /\ service = BaseService
    /\ stream = NoStream

SpecPopular == InitPopular /\ [][Next]_vars

\* status strings of the vendor: those the code names, in lower and in mixed case,
\* one it does not name, and the empty string
StatusStrings ==
    {S_active, S_enabled, S_connected, S_inactive, S_disabled, S_disconnected,
     S_pending, S_initiated, S_error, S_failed, S_Connected, S_Pending, S_FAILED,
     S_foobar, <<>>}

\* one toolkit, slack, and accounts of slack with every status string
InitStatus ==
    /\ initialized = TRUE
    /\ apps = <<ToolkitObject(S_slack, Missing)>>
    /\ \E sts \in SeqUpTo(StatusStrings, MaxConns) :
          accounts = [u \in Users |->
              IF u = Caller
              THEN AccountObjects([i \in 1..Len(sts) |-> [appName |-> S_slack, status |-> sts[i]]])
              ELSE <<>>]
    /\ clock = 0
    /\ req = Frames
    /\ service = BaseService
    /\ stream = NoStream

SpecStatus == InitStatus /\ [][Next]_vars

\* what the vendor may hold as createdAt: nothing, None, the empty string, a
\* value that is not a str, a timestamp in each of the three formats (one of
\* them in lower case with one-digit fields), with a UTC offset, of a day that
\* does not exist, and a word
TimestampValues ==
    {Missing, Null, <<>>, NotAStr, T_f, T_Z, T_space, T_lower, T_offset, T_feb30,
     T_garbage}

TimestampShapes ==
    {[status |-> S_active, createdAt |-> ts] : ts \in TimestampValues}
    \cup {[status |-> S_FAILED, createdAt |-> T_offset],
          [status |-> S_FAILED, createdAt |-> T_Z]}

TimedAccountObjects(shapes) ==
    [i \in 1..Len(shapes) |->
        [id |-> AccountId(i), status |-> shapes[i].status, appName |-> S_slack,
         createdAt |-> shapes[i].createdAt]]

\* one toolkit, slack, and accounts of slack with every kind of createdAt
InitTimestamps ==
    /\ initialized = TRUE
    /\ apps = <<ToolkitObject(S_slack, Missing)>>
    /\ \E shapes \in SeqUpTo(TimestampShapes, MaxConns) :
          accounts = [u \in Users |->
              IF u = Caller THEN TimedAccountObjects(shapes) ELSE <<>>]
    /\ clock = 0
    /\ req = Frames
    /\ service = BaseService
    /\ stream = NoStream

SpecTimestamps == InitTimestamps /\ [][Next]_vars

\* GET /health: one toolkit, slack, and up to MaxGauge accounts of it that are
\* active, in error or pending; the connector initialized or not
GaugeStatuses == {S_active, S_error, S_pending}

InitGauge ==
    /\ initialized \in BOOLEAN
    /\ apps = <<ToolkitObject(S_slack, Missing)>>
    /\ \E sts \in SeqUpTo(GaugeStatuses, MaxGauge) :
          accounts = [u \in Users |->
              IF u = Caller
              THEN AccountObjects([i \in 1..Len(sts) |->
                                      [appName |-> S_slack, status |-> sts[i]]])
              ELSE <<>>]
    /\ clock = 0
    /\ req = Frames
    /\ service = BaseService
    /\ stream = NoStream

SpecGauge == InitGauge /\ [][NextHealth]_vars

\* POST /action with the connector initialized or not, and two accounts of slack
InitActions ==
    /\ initialized \in BOOLEAN
    /\ apps = <<ToolkitObject(S_slack, Missing)>>
    /\ accounts = [u \in Users |->
          IF u = Caller
          THEN AccountObjects(<<[appName |-> S_slack, status |-> S_active],
                                [appName |-> S_slack, status |-> S_inactive]>>)
          ELSE <<>>]
    /\ clock = 0
    /\ req = Frames
    /\ service = BaseService
    /\ stream = NoStream

SpecActions == InitActions /\ [][NextActions]_vars

\* a service that has been constructed, and no request
InitService ==
    /\ initialized = FALSE
    /\ apps = <<>>
    /\ accounts = [u \in Users |-> <<>>]
    /\ clock = 0
    /\ req = [u \in Users |-> NewFrame("absent")]
    /\ service = BaseService
    /\ stream = NoStream

SpecService == InitService /\ [][NextService]_vars

\* a service that is initialized or not, and no request yet
InitStream ==
    /\ initialized = FALSE
    /\ apps = <<>>
    /\ accounts = [u \in Users |-> <<>>]
    /\ clock = 0
    /\ req = [u \in Users |-> NewFrame("absent")]
    /\ service \in {BaseService,
                     initialize(BaseService, Environment("ok", TRUE, TRUE, "ok"))}
    /\ stream = NoStream

SpecStream == InitStream /\ [][NextStream]_vars

\* toolkit objects with and without categories of the vendor: a list that is
\* absent, empty, of one category, or of one category twice; a slug in and out of
\* category_mapping, in lower and in mixed case
StatsToolkitObjects ==
    {ToolkitObject(S_slack, Missing),
     ToolkitObject(S_Slack, <<>>),
     ToolkitObject(S_slack, <<S_Developer_Tools, S_Developer_Tools>>),
     ToolkitObject(S_github, <<S_Communication>>),
     ToolkitObject(S_unknownservice123, Missing)}

StatsAccountShapes ==
    {<<>>,
     <<[appName |-> S_slack, status |-> S_active]>>,
     <<[appName |-> S_github, status |-> S_FAILED]>>,
     <<[appName |-> S_slack, status |-> S_active],
       [appName |-> S_github, status |-> S_FAILED]>>}

\* the service with both entry points, over toolkits with categories
InitStats ==
    /\ initialized \in BOOLEAN
    /\ apps \in SeqUpTo(StatsToolkitObjects, MaxToolkits)
    /\ \E shapes \in StatsAccountShapes :
          accounts = [u \in Users |-> IF u = Caller THEN AccountObjects(shapes) ELSE <<>>]
    /\ clock = 0
    /\ req = Frames
    /\ service = BaseService
    /\ stream = NoStream

SpecStats == InitStats /\ [][NextStats]_vars

RepeatAccountShapes ==
    {<<>>,
     <<[appName |-> S_slack, status |-> S_active]>>,
     <<[appName |-> S_slack, status |-> S_active],
       [appName |-> S_SLACK, status |-> S_FAILED]>>}

\* one user who calls the service up to MaxCalls times; one toolkit, slack
InitRepeat ==
    /\ initialized \in BOOLEAN
    /\ apps = <<ToolkitObject(S_slack, Missing)>>
    /\ \E shapes \in RepeatAccountShapes :
          accounts = [u \in Users |-> IF u = Caller THEN AccountObjects(shapes) ELSE <<>>]
    /\ clock = 0
    /\ req = Frames
    /\ service = BaseService
    /\ stream = NoStream

SpecRepeat == InitRepeat /\ [][NextRepeat]_vars

\* what the vendor holds for each of two users
ConcurrentAccountShapes ==
    {[u \in Users |-> <<>>],
     [u \in Users |-> IF u = "u1"
                      THEN <<[appName |-> S_slack, status |-> S_active]>>
                      ELSE <<>>],
     [u \in Users |-> IF u = "u1"
                      THEN <<[appName |-> S_slack, status |-> S_active]>>
                      ELSE <<[appName |-> S_github, status |-> S_FAILED],
                             [appName |-> S_SLACK, status |-> S_active]>>]}

\* the requests of two users have arrived; the toolkits slack and github
InitConcurrent ==
    /\ initialized = TRUE
    /\ apps = <<ToolkitObject(S_slack, Missing), ToolkitObject(S_github, Missing)>>
    /\ \E shapes \in ConcurrentAccountShapes :
          accounts = [u \in Users |-> AccountObjects(shapes[u])]
    /\ clock = 0
    /\ req = [u \in Users |-> NewFrame("ready")]
    /\ service = BaseService
    /\ stream = NoStream

SpecConcurrent == InitConcurrent /\ [][Next]_vars

\* ------------------------------------------------- a whole call, replayed
\* the frames of a call answered with the action responses resps, in order
RECURSIVE ReplayActions(_, _, _, _)
ReplayActions(f, user_id, resps, now) ==
    IF f.pc # "await_actions" \/ resps = <<>> THEN f
    ELSE ReplayActions(ActionsStep(f, user_id, Head(resps), now), user_id,
                       Tail(resps), now)

\* get_integration_dashboard(user_id) from its call to its return, the vendor
\* answering the toolkits fetch (tk_ok, toolkit_items), the connections fetch
\* (cn_ok, accts) and the action fetches (resps)
RunDashboard(user_id, is_initialized, tk_ok, toolkit_items, cn_ok, accts, resps, now) ==
    LET f1 == CallStep(NewFrame("ready"), user_id, is_initialized, now)
        f2 == IF f1.pc = "await_toolkits"
              THEN ToolkitsStep(f1, user_id, tk_ok, toolkit_items, now) ELSE f1
        f3 == IF f2.pc = "await_connections"
              THEN ConnectionsStep(f2, user_id, cn_ok, accts, now) ELSE f2
    IN  ReplayActions(f3, user_id, resps, now)

\* ------------------------------------------------------------------ claims
Done(u) == req[u].pc = "done"

Returned(u) == Done(u) /\ req[u].outcome = "returned"

Dashboard(u) == req[u].result[1]

\* a dashboard without its time stamp
SansTime(d) == [d EXCEPT !.last_updated = 0]

\* what the vendor answered to the calls of u's request, read off its call log
ToolkitsOk(u) == Len(req[u].calls) >= 1 /\ req[u].calls[1].outcome = "ok"

ConnectionsOk(u) == Len(req[u].calls) >= 2 /\ req[u].calls[2].outcome = "ok"

ActionAnswers(u) ==
    [i \in 1..(Len(req[u].calls) - 2) |->
        [ok |-> req[u].calls[i + 2].outcome = "ok", n |-> req[u].calls[i + 2].n]]

\* C1: in every summary of a returned dashboard, total_connections =
\* active_connections + inactive_connections + error_connections, whatever
\* statuses (active, inactive, pending, error) the connections have.
C1_TotalIsSumOfCounts ==
    \A u \in Users : Returned(u) =>
        \A i \in DOMAIN Dashboard(u).integrations :
            LET s == Dashboard(u).integrations[i]
            IN  s.total_connections =
                    s.active_connections + s.inactive_connections + s.error_connections

\* C2: the verdict of every summary follows the rules, in order: no connection ->
\* unknown; errors > 0 and 2*errors > total -> error; errors > 0 (exactly half
\* included) -> warning; active > 0 -> healthy; otherwise -> warning.
C2_HealthVerdictRules ==
    \A u \in Users : Returned(u) =>
        \A i \in DOMAIN Dashboard(u).integrations :
            LET s == Dashboard(u).integrations[i]
                total == Len(s.connections)
                errors == Cardinality({k \in DOMAIN s.connections :
                                          s.connections[k].status = "error"})
                active == Cardinality({k \in DOMAIN s.connections :
                                          s.connections[k].status = "active"})
            IN  s.health = CASE total = 0 -> "unknown"
                             [] total > 0 /\ errors > 0 /\ 2 * errors > total -> "error"
                             [] total > 0 /\ errors > 0 /\ 2 * errors <= total -> "warning"
                             [] total > 0 /\ errors = 0 /\ active > 0 -> "healthy"
                             [] OTHER -> "warning"

\* C2 witness: a summary with two connections, exactly one of them in error, is
\* given the verdict warning.
C2_HalfInErrorIsWarning ==
    \E u \in Users : Returned(u) /\
        \E i \in DOMAIN Dashboard(u).integrations :
            LET s == Dashboard(u).integrations[i]
            IN  s.total_connections = 2 /\ s.error_connections = 1 /\ s.health = "warning"

\* C3: the message of every summary is given by its verdict, the number N of its
\* connections, the number A of active ones and the number E in error: healthy ->
\* "All N connections are healthy"; warning, A = 0 -> "No active connections out of
\* N"; warning, A > 0 -> "A active, E with issues"; error -> "E connections have
\* errors"; unknown -> "No connections established".
C3_HealthMessage ==
    \A u \in Users : Returned(u) =>
        \A i \in DOMAIN Dashboard(u).integrations :
            LET s == Dashboard(u).integrations[i]
                N == Len(s.connections)
                A == Cardinality({k \in DOMAIN s.connections :
                                     s.connections[k].status = "active"})
                E == Cardinality({k \in DOMAIN s.connections :
                                     s.connections[k].status = "error"})
            IN  s.health_message =
                    CASE s.health = "healthy" ->
                            [text |-> "All {} connections are healthy", values |-> <<N>>]
                      [] s.health = "warning" /\ A = 0 ->
                            [text |-> "No active connections out of {}", values |-> <<N>>]
                      [] s.health = "warning" /\ A > 0 ->
                            [text |-> "{} active, {} with issues", values |-> <<A, E>>]
                      [] s.health = "error" ->
                            [text |-> "{} connections have errors", values |-> <<E>>]
                      [] OTHER ->
                            [text |-> "No connections established", values |-> <<>>]

\* C4: with the connector not initialized the call makes no vendor call and returns
\* the user's dashboard with composio_health false, no integrations, categories or
\* popular integrations, and every count 0.
C4_UninitializedDashboard ==
    \A u \in Users : (Done(u) /\ ~initialized) =>
        /\ Returned(u)
        /\ req[u].calls = <<>>
        /\ Dashboard(u).user_id = u
        /\ Dashboard(u).composio_health = FALSE
        /\ Dashboard(u).integrations = <<>>
        /\ Dashboard(u).categories = <<>>
        /\ Dashboard(u).popular_integrations = <<>>
        /\ Dashboard(u).total_integrations = 0
        /\ Dashboard(u).connected_integrations = 0
        /\ Dashboard(u).total_connections = 0
        /\ Dashboard(u).healthy_connections = 0

\* C4 witness: a call has returned while the connector is not initialized.
C4_ReturnedUninitialized == \E u \in Users : Returned(u) /\ ~initialized

\* C5: a call that ends has returned a dashboard of its user, whatever fetches
\* failed and whatever the vendor records held; it has not raised.
C5_NeverRaises ==
    \A u \in Users : Done(u) =>
        /\ req[u].outcome = "returned"
        /\ Len(req[u].result) = 1
        /\ Dashboard(u).user_id = u

\* C5 witness: a call has returned although a fetched connection has a None
\* provider or a None status in the bucket of a listed toolkit.
C5_MalformedRecordDegraded ==
    \E u \in Users : Returned(u) /\ ~Dashboard(u).composio_health /\
        \E i \in DOMAIN req[u].connections :
            \/ req[u].connections[i].provider = Null
            \/ req[u].connections[i].status = Null

\* C6: a failure of one listing call does not abort the dashboard.  Both calls are
\* issued whichever of them fails.  If only the connections fetch raises, there is
\* one summary per fetched toolkit with a non-empty slug, each with no connection
\* and the verdict unknown.  If only the toolkits fetch raises, the dashboard has no
\* integrations and every count is 0.
C6_ListingFailureIsolated ==
    \A u \in Users : (Returned(u) /\ initialized) =>
        LET f == req[u]
            d == Dashboard(u)
            slugs == {f.toolkits[k].slug : k \in DOMAIN f.toolkits} \ {<<>>}
        IN  /\ Len(f.calls) >= 2
            /\ f.calls[1].op = "get_available_toolkits"
            /\ f.calls[2].op = "list_connected_accounts"
            /\ (ToolkitsOk(u) /\ ~ConnectionsOk(u)) =>
                  /\ \A i \in DOMAIN d.integrations :
                        /\ d.integrations[i].provider \in slugs
                        /\ d.integrations[i].total_connections = 0
                        /\ d.integrations[i].connections = <<>>
                        /\ d.integrations[i].health = "unknown"
                  /\ \A s \in slugs :
                        Cardinality({i \in DOMAIN d.integrations :
                                        d.integrations[i].provider = s})
                        = Cardinality({k \in DOMAIN f.toolkits : f.toolkits[k].slug = s})
            /\ (~ToolkitsOk(u) /\ ConnectionsOk(u)) =>
                  /\ d.integrations = <<>>
                  /\ d.total_integrations = 0
                  /\ d.connected_integrations = 0
                  /\ d.total_connections = 0
                  /\ d.healthy_connections = 0

\* C6 witness: the connections fetch raised, the toolkits fetch did not, and the
\* returned dashboard has two summaries.
C6_ConnectionsFetchFailed ==
    \E u \in Users :
        /\ Returned(u) /\ ToolkitsOk(u) /\ ~ConnectionsOk(u)
        /\ Len(req[u].calls) >= 2
        /\ Len(Dashboard(u).integrations) = 2

\* C7: the failure of the action fetch of one toolkit T is isolated.  Against the
\* same call in which T's fetch returned n actions instead: the same vendor calls
\* are issued, T's summary has available_actions 0 instead of n, and nothing else of
\* the dashboard differs; when the assembly completes, an action fetch has been
\* issued for every toolkit with a non-empty slug.
C7_ActionFailureIsolated ==
    \A u \in Users : (Returned(u) /\ initialized) =>
        \A j \in 3..Len(req[u].calls) : req[u].calls[j].outcome = "raised" =>
            LET f == req[u]
                d == Dashboard(u)
                named == {k \in DOMAIN f.toolkits : f.toolkits[k].slug # <<>>}
                T == CHOOSE k \in named :
                        Cardinality({m \in named : m <= k}) = j - 2
                n == ActionsListed(T)
                ref == RunDashboard(u, initialized, ToolkitsOk(u), apps,
                           ConnectionsOk(u), accounts[u],
                           [ActionAnswers(u) EXCEPT ![j - 2] = [ok |-> TRUE, n |-> n]],
                           0)
                rd == ref.result[1]
            IN  /\ f.calls[j].arg = f.toolkits[T].slug
                /\ ref.pc = "done" /\ ref.outcome = "returned"
                /\ Len(ref.calls) = Len(f.calls)
                /\ \A k \in DOMAIN f.calls :
                      ref.calls[k].op = f.calls[k].op /\ ref.calls[k].arg = f.calls[k].arg
                /\ rd.composio_health = d.composio_health
                /\ ~d.composio_health => SansTime(d) = SansTime(rd)
                /\ d.composio_health =>
                      /\ \E p \in DOMAIN d.integrations :
                            /\ d.integrations[p].provider = f.toolkits[T].slug
                            /\ d.integrations[p].available_actions = 0
                            /\ p \in DOMAIN rd.integrations
                            /\ rd.integrations[p].available_actions = n
                            /\ SansTime(d) =
                                  SansTime([rd EXCEPT
                                              !.integrations[p].available_actions = 0])
                      /\ Len(f.calls) - 2 = Cardinality(named)

\* C7 witness: two summaries were built, the action fetch of the first toolkit
\* raised and that of the second returned.
C7_FirstFetchFailedSecondIssued ==
    \E u \in Users :
        /\ Returned(u) /\ Dashboard(u).composio_health
        /\ Len(req[u].calls) = 4
        /\ req[u].calls[3].outcome = "raised"
        /\ req[u].calls[4].outcome = "ok"
        /\ Len(Dashboard(u).integrations) = 2

\* the sequence s without its j-th element
RemoveAt(s, j) == [i \in 1..(Len(s) - 1) |-> IF i < j THEN s[i] ELSE s[i + 1]]

\* C8: a fetched connection whose provider is empty (or absent at the vendor) is in
\* no summary, and the dashboard equals, but for last_updated, the one built when
\* the vendor does not hold that record.
C8_EmptyProviderIgnored ==
    \A u \in Users : (Returned(u) /\ initialized /\ ConnectionsOk(u)) =>
        \A j \in DOMAIN req[u].connections : req[u].connections[j].provider = <<>> =>
            LET d == Dashboard(u)
                ref == RunDashboard(u, initialized, ToolkitsOk(u), apps, TRUE,
                                    RemoveAt(accounts[u], j), ActionAnswers(u), 0)
            IN  /\ \A i \in DOMAIN d.integrations :
                      \A k \in DOMAIN d.integrations[i].connections :
                          d.integrations[i].connections[k].account_id
                              # req[u].connections[j].account_id
                /\ ref.pc = "done" /\ ref.outcome = "returned"
                /\ SansTime(d) = SansTime(ref.result[1])

\* C8 witness: a dashboard with a connected integration was assembled from a
\* connection list that holds a record with an empty provider.
C8_EmptyProviderFetched ==
    \E u \in Users :
        /\ Returned(u) /\ Dashboard(u).composio_health
        /\ Dashboard(u).connected_integrations > 0
        /\ \E j \in DOMAIN req[u].connections : req[u].connections[j].provider = <<>>

\* C9: the connections of every summary are the fetched connections whose provider
\* equals the summary's slug when both are folded to lower case, in the order the
\* vendor returned them; a completed assembly has one summary per toolkit with a
\* non-empty slug.
C9_CaseInsensitiveJoinInOrder ==
    \A u \in Users : Returned(u) =>
        LET f == req[u]
            d == Dashboard(u)
        IN  /\ d.composio_health =>
                  Len(d.integrations) =
                      Cardinality({k \in DOMAIN f.toolkits : f.toolkits[k].slug # <<>>})
            /\ \A i \in DOMAIN d.integrations :
                  LET s == d.integrations[i]
                      mine == {k \in DOMAIN f.connections :
                                  str_lower(f.connections[k].provider) = str_lower(s.provider)}
                      nth(p) == CHOOSE k \in mine :
                                    Cardinality({m \in mine : m < k}) = p - 1
                  IN  /\ Len(s.connections) = Cardinality(mine)
                      /\ \A p \in DOMAIN s.connections :
                            s.connections[p].account_id = f.connections[nth(p)].account_id

\* C9 witness: the summary of toolkit "Slack" holds, in vendor order, a connection
\* of provider "slack" and one of provider "SLACK".
C9_JoinAcrossCase ==
    \E u \in Users : Returned(u) /\
        \E i \in DOMAIN Dashboard(u).integrations :
            LET s == Dashboard(u).integrations[i]
            IN  /\ s.provider = S_Slack
                /\ Len(s.connections) = 2
                /\ s.connections[1].account_id = AccountId(1)
                /\ s.connections[2].account_id = AccountId(2)
                /\ req[u].connections[1].provider = S_slack
                /\ req[u].connections[2].provider = S_SLACK

\* C10: connected_integrations is the number of summaries with total_connections >
\* 0, and total_integrations the number of summaries.
C10_ConnectedCount ==
    \A u \in Users : Returned(u) =>
        LET d == Dashboard(u)
        IN  /\ d.connected_integrations =
                  Cardinality({i \in DOMAIN d.integrations :
                                  d.integrations[i].total_connections > 0})
            /\ d.total_integrations = Len(d.integrations)

\* C10 witness: a dashboard of two summaries, one of them with a connection.
C10_OneOfTwoConnected ==
    \E u \in Users :
        /\ Returned(u)
        /\ Dashboard(u).total_integrations = 2
        /\ Dashboard(u).connected_integrations = 1

\* C11: popular_integrations of every returned dashboard is the provider slugs of
\* the first 5 (or fewer) integrations with total_connections > 0, in descending
\* order of total_connections: it has min(5, number of connected integrations)
\* entries and is a prefix of the provider slugs of the integrations list.
C11_PopularIsConnectedPrefix ==
    \A u \in Users : Returned(u) =>
        LET d == Dashboard(u)
            pop == d.popular_integrations
            connected == {i \in DOMAIN d.integrations :
                             d.integrations[i].total_connections > 0}
        IN  /\ Len(pop) <= 5
            /\ Len(pop) = IF Cardinality(connected) < 5
                          THEN Cardinality(connected) ELSE 5
            /\ Len(pop) <= Len(d.integrations)
            /\ \A i \in DOMAIN pop :
                  /\ pop[i] = d.integrations[i].provider
                  /\ i \in connected
                  /\ \A m \in connected :
                        m > i => d.integrations[m].total_connections
                                    <= d.integrations[i].total_connections

\* C11 witness: a dashboard with six connected integrations, not all of the same
\* total, lists five of them as popular.
C11_SixConnectedFivePopular ==
    \E u \in Users :
        /\ Returned(u)
        /\ Dashboard(u).connected_integrations = 6
        /\ Len(Dashboard(u).popular_integrations) = 5
        /\ Dashboard(u).integrations[1].total_connections = 2
        /\ Dashboard(u).integrations[2].total_connections = 1

\* C12: the integrations of every returned dashboard are ordered by
\* (-total_connections, display_name): of two consecutive summaries a, b either a
\* has more connections, or they have as many and a.display_name <= b.display_name.
C12_IntegrationsOrdered ==
    \A u \in Users : Returned(u) =>
        LET s == Dashboard(u).integrations
        IN  \A i \in 1..(Len(s) - 1) :
                \/ s[i].total_connections > s[i + 1].total_connections
                \/ /\ s[i].total_connections = s[i + 1].total_connections
                   /\ \/ s[i].display_name = s[i + 1].display_name
                      \/ str_lt(s[i].display_name, s[i + 1].display_name)

\* C12 witness: the toolkits slack and github, offered in this order and both
\* without a connection, are listed as GitHub, Slack.
C12_TieBrokenByName ==
    \E u \in Users :
        /\ Returned(u)
        /\ Len(req[u].toolkits) = 2
        /\ req[u].toolkits[1].slug = S_slack
        /\ req[u].toolkits[2].slug = S_github
        /\ Len(Dashboard(u).integrations) = 2
        /\ Dashboard(u).integrations[1].provider = S_github
        /\ Dashboard(u).integrations[2].provider = S_slack
        /\ Dashboard(u).integrations[1].total_connections =
              Dashboard(u).integrations[2].total_connections

\* a finished call of get_integration_stats and what it returned
StatsReturned(u) ==
    Returned(u) /\ req[u].entry = "get_integration_stats" /\ Len(req[u].stats) = 1

Stats(u) == req[u].stats[1]

\* C13: the categories of a toolkit are the vendor's list, verbatim, when that is
\* not empty; otherwise the entry of category_mapping for the slug folded to
\* lower case (slack: Communication, Team Collaboration), and [Other] when the
\* table has none.  No summary has an empty category list.
C13_CategoryResolution ==
    \A u \in Users :
        /\ req[u].pc = "await_actions" =>
              LET toolkit == req[u].toolkits[req[u].tk]
                  key == str_lower(toolkit.slug)
                  inTable == {e \in DOMAIN category_mapping :
                                 category_mapping[e][1] = key}
                  expected ==
                      IF toolkit.categories # <<>> THEN toolkit.categories
                      ELSE IF inTable # {}
                      THEN category_mapping[CHOOSE e \in inTable : TRUE][2]
                      ELSE <<S_Other>>
              IN  /\ req[u].loc.categories = expected
                  /\ (toolkit.categories = <<>> /\ key = S_slack) =>
                        expected = <<S_Communication, S_Team_Collaboration>>
        /\ \A i \in DOMAIN req[u].integrations :
              req[u].integrations[i].categories # <<>>
        /\ Returned(u) =>
              \A i \in DOMAIN Dashboard(u).integrations :
                  Len(Dashboard(u).integrations[i].categories) >= 1

\* C13 witness: a dashboard lists toolkit "Slack", offered with an empty category
\* list, under the categories of slack, and toolkit "github", offered with the
\* category Communication, under that alone.
C13_TableAndVendorCategories ==
    \E u \in Users :
        /\ Returned(u)
        /\ \E k \in DOMAIN req[u].toolkits :
              req[u].toolkits[k].slug = S_Slack /\ req[u].toolkits[k].categories = <<>>
        /\ \E i, j \in DOMAIN Dashboard(u).integrations :
              /\ Dashboard(u).integrations[i].provider = S_Slack
              /\ Dashboard(u).integrations[i].categories =
                    <<S_Communication, S_Team_Collaboration>>
              /\ Dashboard(u).integrations[j].provider = S_github
              /\ Dashboard(u).integrations[j].categories = <<S_Communication>>

\* C15: in every category record of the statistics, service_count is the number of
\* distinct slugs among the dashboard's integrations that list the category,
\* connected_count the number of those slugs with total_connections > 0, and so
\* connected_count <= service_count, also when a category list repeats a category
\* or two toolkits have the same slug.
C15_CategoryCounts ==
    \A u \in Users : StatsReturned(u) =>
        \A r \in DOMAIN Stats(u).categories :
            LET c == Stats(u).categories[r]
                s == Dashboard(u).integrations
                listing == {i \in DOMAIN s :
                               \E k \in DOMAIN s[i].categories :
                                   s[i].categories[k] = c.display_name}
                slugs == {s[i].provider : i \in listing}
                connected == {s[i].provider :
                                 i \in {m \in listing : s[m].total_connections > 0}}
            IN  /\ c.service_count = Cardinality(slugs)
                /\ c.connected_count = Cardinality(connected)
                /\ c.connected_count <= c.service_count

\* C16: the category records of the statistics are in descending order of
\* connected_count, and there is exactly one record for every category string
\* that occurs in the dashboard's integrations.
C16_CategoriesSortedOnePerName ==
    \A u \in Users : StatsReturned(u) =>
        LET cs == Stats(u).categories
            s == Dashboard(u).integrations
            names == UNION {Range(s[i].categories) : i \in DOMAIN s}
        IN  /\ \A r \in 1..(Len(cs) - 1) :
                  cs[r].connected_count >= cs[r + 1].connected_count
            /\ {cs[r].display_name : r \in DOMAIN cs} = names
            /\ Len(cs) = Cardinality(names)

\* C16 witness: statistics with a category of a connected integration before the
\* category of an integration without a connection.
C16_ConnectedCategoryFirst ==
    \E u \in Users :
        /\ StatsReturned(u)
        /\ Len(Stats(u).categories) = 3
        /\ Stats(u).categories[1].connected_count = 1
        /\ Stats(u).categories[3].connected_count = 0
        /\ Stats(u).categories[3].display_name = S_Other

\* C17: get_integration_stats is derived from one dashboard only: it issues the
\* vendor calls of one get_integration_dashboard call and no other, its totals are
\* that dashboard's (total_available = total_integrations, total_connected =
\* connected_integrations, total_connections, active_connections =
\* healthy_connections, failed_connections = the sum of error_connections), and
\* with the connector uninitialized all totals are 0 and there is no category.
C17_StatsFromOneDashboard ==
    \A u \in Users : (Done(u) /\ req[u].entry = "get_integration_stats") =>
        LET f == req[u]
            ref == RunDashboard(u, initialized, ToolkitsOk(u), apps, ConnectionsOk(u),
                                accounts[u], ActionAnswers(u), 0)
        IN  /\ StatsReturned(u)
            /\ Len(f.result) = 1
            /\ f.calls = ref.calls
            /\ SansTime(Dashboard(u)) = SansTime(ref.result[1])
            /\ LET d == Dashboard(u)
                   st == Stats(u)
                   sum[n \in 0..Len(d.integrations)] ==
                       IF n = 0 THEN 0 ELSE sum[n - 1] + d.integrations[n].error_connections
               IN  /\ st.total_available = d.total_integrations
                   /\ st.total_connected = d.connected_integrations
                   /\ st.total_connections = d.total_connections
                   /\ st.active_connections = d.healthy_connections
                   /\ st.failed_connections = sum[Len(d.integrations)]
                   /\ ~initialized =>
                         /\ f.calls = <<>>
                         /\ st.total_available = 0 /\ st.total_connected = 0
                         /\ st.total_connections = 0 /\ st.active_connections = 0
                         /\ st.failed_connections = 0
                         /\ st.categories = <<>>

\* C17 witness: statistics over a dashboard of two integrations with two
\* connections, one of them failed.
C17_StatsWithFailedConnection ==
    \E u \in Users :
        /\ StatsReturned(u)
        /\ Stats(u).total_available = 2 /\ Stats(u).total_connected = 2
        /\ Stats(u).total_connections = 2 /\ Stats(u).active_connections = 1
        /\ Stats(u).failed_connections = 1

\* C18: the categories of every returned dashboard are in strictly ascending
\* order (sorted, no duplicate) and are exactly the categories that occur in the
\* summaries of its integrations list.
C18_DashboardCategories ==
    \A u \in Users : Returned(u) =>
        LET d == Dashboard(u)
        IN  /\ \A i \in 1..(Len(d.categories) - 1) :
                  str_lt(d.categories[i], d.categories[i + 1])
            /\ Range(d.categories) =
                  UNION {Range(d.integrations[i].categories) : i \in DOMAIN d.integrations}

\* C18 witness: two summaries that share the category Communication; the
\* dashboard lists it once, before Team Collaboration.
C18_SharedCategoryOnce ==
    \E u \in Users :
        /\ Returned(u)
        /\ Len(Dashboard(u).integrations) = 2
        /\ \A i \in DOMAIN Dashboard(u).integrations :
              S_Communication \in Range(Dashboard(u).integrations[i].categories)
        /\ Dashboard(u).categories = <<S_Communication, S_Team_Collaboration>>

\* C14: the status of every connection in a summary is a function of the vendor's
\* status string, whatever its case: active, enabled, connected -> active;
\* inactive, disabled, disconnected -> inactive; pending, initiated -> pending;
\* error, failed -> error; any other string, the empty one included -> inactive.
\* It is never disabled, and no status string makes the assembly fail.
C14_StatusNormalization ==
    \A u \in Users : (Returned(u) /\ ToolkitsOk(u) /\ ConnectionsOk(u)) =>
        LET f == req[u]
            d == Dashboard(u)
            raw(id) == f.connections[CHOOSE k \in DOMAIN f.connections :
                                        f.connections[k].account_id = id].status
            expected(s) ==
                LET l == str_lower(s)
                IN  CASE l \in {S_active, S_enabled, S_connected} -> "active"
                      [] l \in {S_inactive, S_disabled, S_disconnected} -> "inactive"
                      [] l \in {S_pending, S_initiated} -> "pending"
                      [] l \in {S_error, S_failed} -> "error"
                      [] OTHER -> "inactive"
        IN  /\ d.composio_health
            /\ d.total_connections = Len(f.connections)
            /\ \A i \in DOMAIN d.integrations :
                  \A p \in DOMAIN d.integrations[i].connections :
                      LET c == d.integrations[i].connections[p]
                      IN  /\ c.status = expected(raw(c.account_id))
                          /\ c.status # IntegrationStatus.DISABLED
                          /\ c.status \in {"active", "inactive", "pending", "error"}

\* C14 witness: a connection the vendor reports as "Connected" is active and one
\* it reports as "foobar" is inactive.
C14_MixedCaseAndUnknown ==
    \E u \in Users :
        /\ Returned(u)
        /\ Len(req[u].connections) = 2
        /\ req[u].connections[1].status = S_Connected
        /\ req[u].connections[2].status = S_foobar
        /\ Len(Dashboard(u).integrations) = 1
        /\ Len(Dashboard(u).integrations[1].connections) = 2
        /\ Dashboard(u).integrations[1].connections[1].status = "active"
        /\ Dashboard(u).integrations[1].connections[2].status = "inactive"

\* the vendor operations that list and change nothing
ListingOperations ==
    {"get_available_toolkits", "list_connected_accounts", "get_toolkit_actions"}

\* the calls u has finished, the last one included
FinishedCalls(u) ==
    IF Done(u) THEN Append(req[u].history, FinishedCall(req[u])) ELSE req[u].history

\* a result without its time stamp
ResultSansTime(c) == [i \in DOMAIN c.result |-> SansTime(c.result[i])]

C20_ConcurrentCallsIndependent ==
    \A u \in Users :
        /\ Returned(u) =>
              LET ref == RunDashboard(u, initialized, ToolkitsOk(u), apps,
                                      ConnectionsOk(u), accounts[u], ActionAnswers(u), 0)
              IN  /\ ref.pc = "done" /\ ref.outcome = "returned"
                  /\ SansTime(Dashboard(u)) = SansTime(ref.result[1])
        /\ \A v \in Users \ {u} :
              (req[u].pc = "ready" /\ Running(v)) => ENABLED Call(u)

\* a dashboard without the created_at of its connections
SansCreatedAt(d) ==
    [d EXCEPT !.integrations =
        [i \in DOMAIN d.integrations |->
            [d.integrations[i] EXCEPT !.connections =
                [k \in DOMAIN d.integrations[i].connections |->
                    [d.integrations[i].connections[k] EXCEPT !.created_at = Null]]]]]

\* C21: timestamp parsing never fails the assembly.  A connection whose created_at
\* is absent or in none of the three formats has created_at = None in its summary,
\* one in an accepted format has a datetime, and the dashboard is, but for the
\* created_at values, the one assembled when every timestamp is valid: every
\* connection is in its provider's summary and its status is counted.
C21_TimestampNeverFails ==
    \A u \in Users : (Returned(u) /\ ToolkitsOk(u) /\ ConnectionsOk(u)) =>
        LET f == req[u]
            d == Dashboard(u)
            accepted == {T_f, T_Z, T_space, T_lower}
            valid == [k \in DOMAIN accounts[u] |->
                         [accounts[u][k] EXCEPT !.createdAt = T_Z]]
            ref == RunDashboard(u, initialized, TRUE, apps, TRUE, valid,
                                ActionAnswers(u), 0)
        IN  /\ d.composio_health
            /\ Len(d.integrations) = 1
            /\ Len(d.integrations[1].connections) = Len(accounts[u])
            /\ \A k \in DOMAIN accounts[u] :
                  LET c == d.integrations[1].connections[k]
                  IN  /\ c.account_id = accounts[u][k].id
                      /\ accounts[u][k].createdAt \notin accepted => c.created_at = Null
                      /\ accounts[u][k].createdAt \in accepted => c.created_at # Null
            /\ ref.pc = "done" /\ ref.outcome = "returned"
            /\ SansTime(SansCreatedAt(d)) = SansTime(SansCreatedAt(ref.result[1]))

\* C21 witness: of two connections of slack, the first with a timestamp with a
\* UTC offset and a failed status, the second with a timestamp with
\* microseconds, the first has no created_at, the second has one, and both are
\* counted.
C21_UnparsedTimestampCounted ==
    \E u \in Users :
        /\ Returned(u)
        /\ Len(accounts[u]) = 2
        /\ accounts[u][1].createdAt = T_offset /\ accounts[u][1].status = S_FAILED
        /\ accounts[u][2].createdAt = T_f
        /\ Len(Dashboard(u).integrations) = 1
        /\ Dashboard(u).integrations[1].total_connections = 2
        /\ Dashboard(u).integrations[1].error_connections = 1
        /\ Dashboard(u).integrations[1].connections[1].created_at = Null
        /\ Dashboard(u).integrations[1].connections[2].created_at =
              datetime(2024, 1, 15, 10, 30, 0, 123000)

\* the fetched toolkits with a non-empty slug, by position
NamedToolkits(u) == {k \in DOMAIN req[u].toolkits : req[u].toolkits[k].slug # <<>>}

\* the vendor calls of u's request are the toolkits fetch, the connections fetch
\* and an action-list fetch per named toolkit, in the vendor's order; only the
\* last one can be outstanding, and the request is over as soon as none is
CallsInOrder(u) ==
    LET f == req[u]
        nth(j) == CHOOSE k \in NamedToolkits(u) :
                      Cardinality({m \in NamedToolkits(u) : m < k}) = j - 1
    IN  /\ \A k \in DOMAIN f.calls :
              /\ k = 1 => f.calls[k].op = "get_available_toolkits"
              /\ k = 2 => f.calls[k].op = "list_connected_accounts"
                             /\ f.calls[k].arg = <<u>>
              /\ k >= 3 => /\ f.calls[k].op = "get_toolkit_actions"
                           /\ k - 2 <= Cardinality(NamedToolkits(u))
                           /\ f.calls[k].arg = f.toolkits[nth(k - 2)].slug
              /\ f.calls[k].outcome = "pending" => k = Len(f.calls)
        /\ Running(u) <=> (f.calls # <<>> /\ f.calls[Len(f.calls)].outcome = "pending")
        /\ (f.calls # <<>> /\ f.calls[Len(f.calls)].outcome # "pending") => Done(u)

C23_ConnectionInOneSummary ==
    \A u \in Users : Returned(u) =>
        LET f == req[u]
            d == Dashboard(u)
        IN  /\ \A c \in DOMAIN f.connections :
                  Cardinality({i \in DOMAIN d.integrations :
                      \E k \in DOMAIN d.integrations[i].connections :
                          d.integrations[i].connections[k].account_id =
                              f.connections[c].account_id}) <= 1
            /\ d.total_connections <= Len(f.connections)

\* C24: in every summary the verdict agrees with the counts: unknown exactly when
\* total_connections = 0; healthy only with error_connections = 0 and
\* active_connections >= 1; error only with 2 * error_connections >
\* total_connections; and healthy_connections of the dashboard is the sum of the
\* summaries' active_connections and at most total_connections.
C24_VerdictAgreesWithCounts ==
    \A u \in Users : Returned(u) =>
        LET d == Dashboard(u)
            sum[n \in 0..Len(d.integrations)] ==
                IF n = 0 THEN 0 ELSE sum[n - 1] + d.integrations[n].active_connections
        IN  /\ \A i \in DOMAIN d.integrations :
                  LET s == d.integrations[i]
                  IN  /\ s.health = "unknown" <=> s.total_connections = 0
                      /\ s.health = "healthy" =>
                            s.error_connections = 0 /\ s.active_connections >= 1
                      /\ s.health = "error" =>
                            2 * s.error_connections > s.total_connections
            /\ d.healthy_connections = sum[Len(d.integrations)]
            /\ d.healthy_connections <= d.total_connections

\* C24 witness: a summary of three connections, one active, one pending, one of
\* them in error, has the verdict warning; one of the three is healthy.
C24_MixedSummary ==
    \E u \in Users :
        /\ Returned(u)
        /\ Len(Dashboard(u).integrations) = 1
        /\ Dashboard(u).integrations[1].total_connections = 3
        /\ Dashboard(u).integrations[1].active_connections = 1
        /\ Dashboard(u).integrations[1].error_connections = 1
        /\ Dashboard(u).integrations[1].inactive_connections = 0
        /\ Dashboard(u).integrations[1].health = "warning"
        /\ Dashboard(u).healthy_connections = 1
        /\ Dashboard(u).total_connections = 3

\* no connection record that was fetched lacks a status or a provider
WellFormedConnections(u) ==
    \A k \in DOMAIN req[u].connections :
        req[u].connections[k].status # Null /\ req[u].connections[k].provider # Null

\* C25: a dashboard with composio_health = false has no integration and all its
\* counts are zero; a dashboard assembled while fetches failed (the toolkits
\* fetch, the connections fetch, action fetches) and nothing else did has
\* composio_health = true.
C25_AvailabilityFlag ==
    \A u \in Users : Returned(u) =>
        LET d == Dashboard(u)
        IN  /\ ~d.composio_health =>
                  /\ d.integrations = <<>>
                  /\ d.total_integrations = 0 /\ d.connected_integrations = 0
                  /\ d.total_connections = 0 /\ d.healthy_connections = 0
                  /\ d.categories = <<>> /\ d.popular_integrations = <<>>
            /\ (initialized /\ WellFormedConnections(u)) => d.composio_health
            /\ ~initialized => ~d.composio_health

\* C25 witness: the toolkits fetch raised, the connections fetch returned two
\* connections, and the dashboard has composio_health = true.
C25_ToolkitsFetchFailedStillAvailable ==
    \E u \in Users :
        /\ Returned(u)
        /\ Len(req[u].calls) = 2
        /\ req[u].calls[1].outcome = "raised"
        /\ req[u].calls[2].outcome = "ok" /\ req[u].calls[2].n = 2
        /\ Dashboard(u).composio_health

\* a request of POST /action that has been answered
Answered(u) == req[u].pc = "done" /\ req[u].entry = "perform_integration_action"

\* C26: POST /action with the connector not initialized is answered with status
\* 503 "Composio service not available" for every action name, and no vendor
\* operation is invoked
C26_UninitializedAnswers503 ==
    \A u \in Users :
        Answered(u) /\ ~initialized =>
            /\ req[u].response[1].status_code = 503
            /\ req[u].response[1].detail =
                   fstring("Composio service not available", <<>>)
            /\ req[u].calls = <<>>

\* the action names of POST /action that need a connection_id
NeedsConnectionId == {S_disconnect, S_refresh, S_enable, S_disable}

\* C27: POST /action with the connector initialized: disconnect, refresh, enable
\* or disable without a connection_id, and an action name outside the five known
\* ones (compared in lower case), is answered with status 400 and invokes no
\* vendor operation; every other request invokes exactly one vendor operation,
\* the one of its action
C27_ActionValidation ==
    \A u \in Users :
        Answered(u) /\ initialized =>
            LET request == req[u].request[1]
                action == str_lower(request.action)
                rejected ==
                    \/ action \notin NeedsConnectionId \cup {S_connect}
                    \/ action \in NeedsConnectionId
                          /\ request.connection_id \in {Null, <<>>}
            IN  IF rejected
                THEN req[u].response[1].status_code = 400 /\ req[u].calls = <<>>
                ELSE /\ Len(req[u].calls) = 1
                     /\ req[u].response[1].status_code # 400
                     /\ <<action, req[u].calls[1].op>> \in
                           {<<S_connect, "enhanced_initiate_connection">>,
                            <<S_disconnect, "delete_connected_account">>,
                            <<S_refresh, "refresh_connected_account">>,
                            <<S_enable, "enable_connected_account">>,
                            <<S_disable, "disable_connected_account">>}

\* "Refresh" with a connection_id has been answered after one refresh at the
\* vendor, and before it "remove" has been answered with status 400
C27_RefreshAfterRejectedRemove ==
    \E u \in Users :
        /\ Answered(u) /\ initialized
        /\ req[u].request[1].action = S_Refresh
        /\ req[u].request[1].connection_id = AccountId(1)
        /\ Len(req[u].calls) = 1
        /\ req[u].calls[1].op = "refresh_connected_account"
        /\ req[u].response[1].status_code = 200
        /\ Len(req[u].history) = 1
        /\ req[u].history[1].request[1].action = S_remove
        /\ req[u].history[1].response[1].status_code = 400

\* the body of the answer of GET /health to u
HealthBody(u) == req[u].response[1].body

\* GET /health has answered u with a body
HealthAnswered(u) ==
    /\ req[u].pc = "done" /\ req[u].entry = "get_integration_health"
    /\ req[u].response[1].status_code = 200

\* C28: GET /health reports healthy when 100 * healthy_connections >=
\* 80 * total_connections, warning when it is >= 60 * total_connections but
\* below 80, critical otherwise; with no connection the percentage is 100 and the
\* status healthy, so the dashboard of an unavailable vendor is reported healthy
C28_HealthStatusThresholds ==
    \A u \in Users :
        HealthAnswered(u) =>
            LET healthy == HealthBody(u).healthy_connections
                total == HealthBody(u).total_connections
            IN  /\ HealthBody(u).status =
                      IF 100 * healthy >= 80 * total THEN "healthy"
                      ELSE IF 100 * healthy >= 60 * total THEN "warning"
                      ELSE "critical"
                /\ total = 0 =>
                      /\ HealthBody(u).health_percentage_tenths = 1000
                      /\ HealthBody(u).status = "healthy"
                /\ ~HealthBody(u).composio_health =>
                      /\ total = 0
                      /\ HealthBody(u).status = "healthy"

\* four of five connections are active: exactly 80 per cent, reported healthy
C28_FourOfFiveHealthy ==
    \E u \in Users :
        /\ HealthAnswered(u)
        /\ HealthBody(u).total_connections = 5
        /\ HealthBody(u).healthy_connections = 4
        /\ HealthBody(u).failed_connections = 1
        /\ HealthBody(u).health_percentage_tenths = 800
        /\ HealthBody(u).status = "healthy"

\* C29: after any calls of initialize() and reset(), initialized implies that
\* the client is set; the client property returns a client only when the
\* service is initialized and raises RuntimeError otherwise; initialize() on an
\* initialized service neither validates nor constructs a client nor changes
\* the service; an initialize() that fails raises and leaves the service
\* uninitialized; reset() leaves it uninitialized and without client
C29_ServiceLifecycle ==
    /\ service._initialized => service._client # Null
    /\ \A i \in 1..Len(service.log) :
          LET call == service.log[i]
          IN  /\ call.op = "client" =>
                    IF call.before._initialized
                    THEN call.raised = "none" /\ call.returned = call.before._client
                                             /\ call.returned # Null
                    ELSE call.raised = "RuntimeError" /\ call.returned = Null
              /\ call.op = "initialize" /\ call.before._initialized =>
                    /\ ~call.validated /\ ~call.constructed
                    /\ call.raised = "none"
                    /\ call.after = call.before
              /\ call.op = "initialize" /\ ~call.before._initialized =>
                    /\ call.validated
                    /\ call.raised # "none" <=> ~call.after._initialized
                    /\ call.raised \in {"none", "ConfigurationError", "GeminiError"}
              /\ call.op = "reset" =>
                    call.after = [_initialized |-> FALSE, _client |-> Null]

\* initialize() failed at the test prompt, then succeeded, then was called
\* again, and the client property returned the second client
C29_InitializedAfterFailure ==
    /\ Len(service.log) = 4
    /\ service.log[1].op = "initialize" /\ service.log[1].raised = "GeminiError"
    /\ service.log[1].after = [_initialized |-> FALSE,
                               _client |-> <<"GenerativeModel", 1>>]
    /\ service.log[2].op = "initialize" /\ service.log[2].raised = "none"
    /\ service.log[3].op = "initialize" /\ service.log[3].before._initialized
    /\ service.log[4].op = "client"
    /\ service.log[4].returned = <<"GenerativeModel", 2>>
    /\ service._initialized

\* done and error end a stream
Terminal(e) == e.type \in {"done", "error"}

\* C30: a stream of POST /stream begins with its one conversation_id event;
\* content events follow, each with that conversation_id; a stream that has
\* ended has exactly one terminal event, its last: done if generation did not
\* raise, error if it did; nothing follows a terminal event
C30_StreamProtocol ==
    LET ev == stream.events
    IN  /\ stream.pc \in {"started", "generating", "closed"} <=> ev # <<>>
        /\ \A i \in 1..Len(ev) :
              /\ ev[i].type \in {"conversation_id", "content", "done", "error"}
              /\ ev[i].type = "conversation_id" <=> i = 1
              /\ ev[i].type = "content" => ev[i].conversation_id = ev[1].data
              /\ ev[i].type = "done" => ev[i].conversation_id = ev[1].data
              /\ Terminal(ev[i]) => i = Len(ev) /\ stream.pc = "closed"
        /\ stream.pc = "closed" =>
              /\ Terminal(ev[Len(ev)])
              /\ ev[Len(ev)].type = "done" <=> stream.raised = "none"
              /\ ev[Len(ev)].type = "error" <=> stream.raised # "none"

\* a stream of a generated conversation id, two content events and an error
C30_TwoChunksThenError ==
    /\ stream.pc = "closed"
    /\ Len(stream.events) = 4
    /\ stream.request[1].conversation_id = <<>>
    /\ stream.events[1].type = "conversation_id"
    /\ stream.events[1].data = fstring("conv_{}_{}", <<Caller, <<"a", "f">>>>)
    /\ stream.events[2].type = "content" /\ stream.events[2].data = S_hi
    /\ stream.events[3].type = "content"
    /\ stream.events[3].conversation_id = stream.events[1].data
    /\ stream.events[4].type = "error"
    /\ stream.raised = "GeminiError"

====
